---- MODULE Spec2Model ----
(***************************************************************************)
(* Model of mwb2dbm: the synthesis of a pgModeler tree (Main.createDbm)    *)
(* from the schema graph built by dbo.py.                                  *)
(*                                                                         *)
(* Text that the program concatenates, slices, measures or searches is a   *)
(* sequence of one-character strings, so that 'enum_' + name, str(n),      *)
(* name[:59] and len(name) are computed, not assumed.  Attribute values    *)
(* from a fixed vocabulary that the program only compares or copies        *)
(* ("true", "PRIMARY", "UNSIGNED") are TLA+ strings.  Python's None for a  *)
(* text attribute is the empty sequence (BaseObjFromEl turns '' into None, *)
(* so the two never have to be told apart).                                *)
(***************************************************************************)
EXTENDS Integers, Sequences, FiniteSets, TLC

(***************************************************************************)
(* Python string and list primitives                                       *)
(***************************************************************************)
Min2(a, b) == IF a < b THEN a ELSE b

\* s[:n] for n >= 0
Take(s, n) == SubSeq(s, 1, Min2(n, Len(s)))

\* s[n:] for n >= 0
Drop(s, n) == SubSeq(s, n + 1, Len(s))

\* s.startswith(p)
StartsWith(s, p) == Len(p) <= Len(s) /\ SubSeq(s, 1, Len(p)) = p

\* s.endswith(p)
EndsWith(s, p) == Len(p) <= Len(s) /\ SubSeq(s, Len(s) - Len(p) + 1, Len(s)) = p

\* s.find(sub): the 0-based position of the first occurrence, or -1
Find(s, sub) ==
    LET hits == {i \in 1..(Len(s) - Len(sub) + 1) : SubSeq(s, i, i + Len(sub) - 1) = sub}
    IN  IF hits = {} THEN -1 ELSE (CHOOSE i \in hits : \A j \in hits : i <= j) - 1

\* c * n : the character c repeated n times
Repeat(c, n) == [i \in 1..n |-> c]

Digits == <<"0","1","2","3","4","5","6","7","8","9">>

RECURSIVE NatToStr(_)
NatToStr(n) == IF n < 10 THEN <<Digits[n + 1]>> ELSE NatToStr(n \div 10) \o <<Digits[(n % 10) + 1]>>

\* str(n) for an integer n
IntToStr(n) == IF n < 0 THEN <<"-">> \o NatToStr(0 - n) ELSE NatToStr(n)

\* A character is a string: the character itself where a string of the model
\* can hold it (the characters up to U+00FF but the grave accent, and those
\* whose code ends in a byte from 80 to FF), and its code point, as in
\* "U+0101", where it cannot.
\*
\* The letters that str.lower() changes into one character, and at the same
\* places what it makes of them.
Upper == <<"A","B","C","D","E","F","G","H","I","J","K","L","M","N","O","P","Q","R","S","T","U",
           "V","W","X","Y","Z","À","Á","Â","Ã","Ä","Å","Æ","Ç","È","É","Ê","Ë","Ì","Í","Î","Ï",
           "Ð","Ñ","Ò","Ó","Ô","Õ","Ö","Ø","Ù","Ú","Û","Ü","Ý","Þ","U+0100","U+0102","U+0104",
           "U+0106","U+0108","U+010A","U+010C","U+010E","U+0110","U+0112","U+0114","U+0116",
           "U+0118","U+011A","U+011C","U+011E","U+0120","U+0122","U+0124","U+0126","U+0128",
           "U+012A","U+012C","U+012E","U+0132","U+0134","U+0136","U+0139","U+013B","U+013D",
           "U+013F","U+0141","U+0143","U+0145","U+0147","U+014A","U+014C","U+014E","U+0150",
           "U+0152","U+0154","U+0156","U+0158","U+015A","U+015C","U+015E","U+0160","U+0162",
           "U+0164","U+0166","U+0168","U+016A","U+016C","U+016E","U+0170","U+0172","U+0174",
           "U+0176","U+0178","U+0179","U+017B","U+017D","Ɓ","Ƃ","Ƅ","Ɔ","Ƈ","Ɖ","Ɗ","Ƌ","Ǝ","Ə",
           "Ɛ","Ƒ","Ɠ","Ɣ","Ɩ","Ɨ","Ƙ","Ɯ","Ɲ","Ɵ","Ơ","Ƣ","Ƥ","Ʀ","Ƨ","Ʃ","Ƭ","Ʈ","Ư","Ʊ","Ʋ",
           "Ƴ","Ƶ","Ʒ","Ƹ","Ƽ","Ǆ","ǅ","Ǉ","ǈ","Ǌ","ǋ","Ǎ","Ǐ","Ǒ","Ǔ","Ǖ","Ǘ","Ǚ","Ǜ","Ǟ","Ǡ",
           "Ǣ","Ǥ","Ǧ","Ǩ","Ǫ","Ǭ","Ǯ","Ǳ","ǲ","Ǵ","Ƕ","Ƿ","Ǹ","Ǻ","Ǽ","Ǿ","U+0200","U+0202",
           "U+0204","U+0206","U+0208","U+020A","U+020C","U+020E","U+0210","U+0212","U+0214",
           "U+0216","U+0218","U+021A","U+021C","U+021E","U+0220","U+0222","U+0224","U+0226",
           "U+0228","U+022A","U+022C","U+022E","U+0230","U+0232","U+023A","U+023B","U+023D",
           "U+023E","U+0241","U+0243","U+0244","U+0245","U+0246","U+0248","U+024A","U+024C",
           "U+024E","U+0370","U+0372","U+0376","U+037F","Ά","Έ","Ή","Ί","Ό","Ύ","Ώ","Α","Β","Γ",
           "Δ","Ε","Ζ","Η","Θ","Ι","Κ","Λ","Μ","Ν","Ξ","Ο","Π","Ρ","Σ","Τ","Υ","Φ","Χ","Ψ","Ω",
           "Ϊ","Ϋ","Ϗ","Ϙ","Ϛ","Ϝ","Ϟ","Ϡ","Ϣ","Ϥ","Ϧ","Ϩ","Ϫ","Ϭ","Ϯ","ϴ","Ϸ","Ϲ","Ϻ","Ͻ","Ͼ",
           "Ͽ","U+0400","U+0401","U+0402","U+0403","U+0404","U+0405","U+0406","U+0407","U+0408",
           "U+0409","U+040A","U+040B","U+040C","U+040D","U+040E","U+040F","U+0410","U+0411",
           "U+0412","U+0413","U+0414","U+0415","U+0416","U+0417","U+0418","U+0419","U+041A",
           "U+041B","U+041C","U+041D","U+041E","U+041F","U+0420","U+0421","U+0422","U+0423",
           "U+0424","U+0425","U+0426","U+0427","U+0428","U+0429","U+042A","U+042B","U+042C",
           "U+042D","U+042E","U+042F","U+0460","U+0462","U+0464","U+0466","U+0468","U+046A",
           "U+046C","U+046E","U+0470","U+0472","U+0474","U+0476","U+0478","U+047A","U+047C",
           "U+047E","Ҁ","Ҋ","Ҍ","Ҏ","Ґ","Ғ","Ҕ","Җ","Ҙ","Қ","Ҝ","Ҟ","Ҡ","Ң","Ҥ","Ҧ","Ҩ","Ҫ","Ҭ",
           "Ү","Ұ","Ҳ","Ҵ","Ҷ","Ҹ","Һ","Ҽ","Ҿ","Ӏ","Ӂ","Ӄ","Ӆ","Ӈ","Ӊ","Ӌ","Ӎ","Ӑ","Ӓ","Ӕ","Ӗ",
           "Ә","Ӛ","Ӝ","Ӟ","Ӡ","Ӣ","Ӥ","Ӧ","Ө","Ӫ","Ӭ","Ӯ","Ӱ","Ӳ","Ӵ","Ӷ","Ӹ","Ӻ","Ӽ","Ӿ",
           "U+0500","U+0502","U+0504","U+0506","U+0508","U+050A","U+050C","U+050E","U+0510",
           "U+0512","U+0514","U+0516","U+0518","U+051A","U+051C","U+051E","U+0520","U+0522",
           "U+0524","U+0526","U+0528","U+052A","U+052C","U+052E","U+0531","U+0532","U+0533",
           "U+0534","U+0535","U+0536","U+0537","U+0538","U+0539","U+053A","U+053B","U+053C",
           "U+053D","U+053E","U+053F","U+0540","U+0541","U+0542","U+0543","U+0544","U+0545",
           "U+0546","U+0547","U+0548","U+0549","U+054A","U+054B","U+054C","U+054D","U+054E",
           "U+054F","U+0550","U+0551","U+0552","U+0553","U+0554","U+0555","U+0556","Ⴀ","Ⴁ","Ⴂ",
           "Ⴃ","Ⴄ","Ⴅ","Ⴆ","Ⴇ","Ⴈ","Ⴉ","Ⴊ","Ⴋ","Ⴌ","Ⴍ","Ⴎ","Ⴏ","Ⴐ","Ⴑ","Ⴒ","Ⴓ","Ⴔ","Ⴕ","Ⴖ","Ⴗ",
           "Ⴘ","Ⴙ","Ⴚ","Ⴛ","Ⴜ","Ⴝ","Ⴞ","Ⴟ","Ⴠ","Ⴡ","Ⴢ","Ⴣ","Ⴤ","Ⴥ","Ⴧ","Ⴭ","Ꭰ","Ꭱ","Ꭲ","Ꭳ","Ꭴ",
           "Ꭵ","Ꭶ","Ꭷ","Ꭸ","Ꭹ","Ꭺ","Ꭻ","Ꭼ","Ꭽ","Ꭾ","Ꭿ","Ꮀ","Ꮁ","Ꮂ","Ꮃ","Ꮄ","Ꮅ","Ꮆ","Ꮇ","Ꮈ","Ꮉ",
           "Ꮊ","Ꮋ","Ꮌ","Ꮍ","Ꮎ","Ꮏ","Ꮐ","Ꮑ","Ꮒ","Ꮓ","Ꮔ","Ꮕ","Ꮖ","Ꮗ","Ꮘ","Ꮙ","Ꮚ","Ꮛ","Ꮜ","Ꮝ","Ꮞ",
           "Ꮟ","Ꮠ","Ꮡ","Ꮢ","Ꮣ","Ꮤ","Ꮥ","Ꮦ","Ꮧ","Ꮨ","Ꮩ","Ꮪ","Ꮫ","Ꮬ","Ꮭ","Ꮮ","Ꮯ","Ꮰ","Ꮱ","Ꮲ","Ꮳ",
           "Ꮴ","Ꮵ","Ꮶ","Ꮷ","Ꮸ","Ꮹ","Ꮺ","Ꮻ","Ꮼ","Ꮽ","Ꮾ","Ꮿ","Ᏸ","Ᏹ","Ᏺ","Ᏻ","Ᏼ","Ᏽ","Ა","Ბ","Გ",
           "Დ","Ე","Ვ","Ზ","Თ","Ი","Კ","Ლ","Მ","Ნ","Ო","Პ","Ჟ","Რ","Ს","Ტ","Უ","Ფ","Ქ","Ღ","Ყ",
           "Შ","Ჩ","Ც","Ძ","Წ","Ჭ","Ხ","Ჯ","Ჰ","Ჱ","Ჲ","Ჳ","Ჴ","Ჵ","Ჶ","Ჷ","Ჸ","Ჹ","Ჺ","Ჽ","Ჾ",
           "Ჿ","U+1E00","U+1E02","U+1E04","U+1E06","U+1E08","U+1E0A","U+1E0C","U+1E0E","U+1E10",
           "U+1E12","U+1E14","U+1E16","U+1E18","U+1E1A","U+1E1C","U+1E1E","U+1E20","U+1E22",
           "U+1E24","U+1E26","U+1E28","U+1E2A","U+1E2C","U+1E2E","U+1E30","U+1E32","U+1E34",
           "U+1E36","U+1E38","U+1E3A","U+1E3C","U+1E3E","U+1E40","U+1E42","U+1E44","U+1E46",
           "U+1E48","U+1E4A","U+1E4C","U+1E4E","U+1E50","U+1E52","U+1E54","U+1E56","U+1E58",
           "U+1E5A","U+1E5C","U+1E5E","U+1E60","U+1E62","U+1E64","U+1E66","U+1E68","U+1E6A",
           "U+1E6C","U+1E6E","U+1E70","U+1E72","U+1E74","U+1E76","U+1E78","U+1E7A","U+1E7C",
           "U+1E7E","Ẁ","Ẃ","Ẅ","Ẇ","Ẉ","Ẋ","Ẍ","Ẏ","Ẑ","Ẓ","Ẕ","ẞ","Ạ","Ả","Ấ","Ầ","Ẩ","Ẫ","Ậ",
           "Ắ","Ằ","Ẳ","Ẵ","Ặ","Ẹ","Ẻ","Ẽ","Ế","Ề","Ể","Ễ","Ệ","Ỉ","Ị","Ọ","Ỏ","Ố","Ồ","Ổ","Ỗ",
           "Ộ","Ớ","Ờ","Ở","Ỡ","Ợ","Ụ","Ủ","Ứ","Ừ","Ử","Ữ","Ự","Ỳ","Ỵ","Ỷ","Ỹ","Ỻ","Ỽ","Ỿ",
           "U+1F08","U+1F09","U+1F0A","U+1F0B","U+1F0C","U+1F0D","U+1F0E","U+1F0F","U+1F18",
           "U+1F19","U+1F1A","U+1F1B","U+1F1C","U+1F1D","U+1F28","U+1F29","U+1F2A","U+1F2B",
           "U+1F2C","U+1F2D","U+1F2E","U+1F2F","U+1F38","U+1F39","U+1F3A","U+1F3B","U+1F3C",
           "U+1F3D","U+1F3E","U+1F3F","U+1F48","U+1F49","U+1F4A","U+1F4B","U+1F4C","U+1F4D",
           "U+1F59","U+1F5B","U+1F5D","U+1F5F","U+1F68","U+1F69","U+1F6A","U+1F6B","U+1F6C",
           "U+1F6D","U+1F6E","U+1F6F","ᾈ","ᾉ","ᾊ","ᾋ","ᾌ","ᾍ","ᾎ","ᾏ","ᾘ","ᾙ","ᾚ","ᾛ","ᾜ","ᾝ",
           "ᾞ","ᾟ","ᾨ","ᾩ","ᾪ","ᾫ","ᾬ","ᾭ","ᾮ","ᾯ","Ᾰ","Ᾱ","Ὰ","Ά","ᾼ","Ὲ","Έ","Ὴ","Ή","ῌ","Ῐ",
           "Ῑ","Ὶ","Ί","Ῠ","Ῡ","Ὺ","Ύ","Ῥ","Ὸ","Ό","Ὼ","Ώ","ῼ","U+2126","U+212A","U+212B",
           "U+2132","U+2160","U+2161","U+2162","U+2163","U+2164","U+2165","U+2166","U+2167",
           "U+2168","U+2169","U+216A","U+216B","U+216C","U+216D","U+216E","U+216F","Ↄ","Ⓐ","Ⓑ",
           "Ⓒ","Ⓓ","Ⓔ","Ⓕ","Ⓖ","Ⓗ","Ⓘ","Ⓙ","Ⓚ","Ⓛ","Ⓜ","Ⓝ","Ⓞ","Ⓟ","Ⓠ","Ⓡ","Ⓢ","Ⓣ","Ⓤ","Ⓥ","Ⓦ",
           "Ⓧ","Ⓨ","Ⓩ","U+2C00","U+2C01","U+2C02","U+2C03","U+2C04","U+2C05","U+2C06","U+2C07",
           "U+2C08","U+2C09","U+2C0A","U+2C0B","U+2C0C","U+2C0D","U+2C0E","U+2C0F","U+2C10",
           "U+2C11","U+2C12","U+2C13","U+2C14","U+2C15","U+2C16","U+2C17","U+2C18","U+2C19",
           "U+2C1A","U+2C1B","U+2C1C","U+2C1D","U+2C1E","U+2C1F","U+2C20","U+2C21","U+2C22",
           "U+2C23","U+2C24","U+2C25","U+2C26","U+2C27","U+2C28","U+2C29","U+2C2A","U+2C2B",
           "U+2C2C","U+2C2D","U+2C2E","U+2C2F","U+2C60","U+2C62","U+2C63","U+2C64","U+2C67",
           "U+2C69","U+2C6B","U+2C6D","U+2C6E","U+2C6F","U+2C70","U+2C72","U+2C75","U+2C7E",
           "U+2C7F","Ⲁ","Ⲃ","Ⲅ","Ⲇ","Ⲉ","Ⲋ","Ⲍ","Ⲏ","Ⲑ","Ⲓ","Ⲕ","Ⲗ","Ⲙ","Ⲛ","Ⲝ","Ⲟ","Ⲡ","Ⲣ","Ⲥ",
           "Ⲧ","Ⲩ","Ⲫ","Ⲭ","Ⲯ","Ⲱ","Ⲳ","Ⲵ","Ⲷ","Ⲹ","Ⲻ","Ⲽ","Ⲿ","Ⳁ","Ⳃ","Ⳅ","Ⳇ","Ⳉ","Ⳋ","Ⳍ","Ⳏ",
           "Ⳑ","Ⳓ","Ⳕ","Ⳗ","Ⳙ","Ⳛ","Ⳝ","Ⳟ","Ⳡ","Ⳣ","Ⳬ","Ⳮ","Ⳳ","U+A640","U+A642","U+A644",
           "U+A646","U+A648","U+A64A","U+A64C","U+A64E","U+A650","U+A652","U+A654","U+A656",
           "U+A658","U+A65A","U+A65C","U+A65E","U+A660","U+A662","U+A664","U+A666","U+A668",
           "U+A66A","U+A66C","Ꚁ","Ꚃ","Ꚅ","Ꚇ","Ꚉ","Ꚋ","Ꚍ","Ꚏ","Ꚑ","Ꚓ","Ꚕ","Ꚗ","Ꚙ","Ꚛ","U+A722",
           "U+A724","U+A726","U+A728","U+A72A","U+A72C","U+A72E","U+A732","U+A734","U+A736",
           "U+A738","U+A73A","U+A73C","U+A73E","U+A740","U+A742","U+A744","U+A746","U+A748",
           "U+A74A","U+A74C","U+A74E","U+A750","U+A752","U+A754","U+A756","U+A758","U+A75A",
           "U+A75C","U+A75E","U+A760","U+A762","U+A764","U+A766","U+A768","U+A76A","U+A76C",
           "U+A76E","U+A779","U+A77B","U+A77D","U+A77E","Ꞁ","Ꞃ","Ꞅ","Ꞇ","Ꞌ","Ɥ","Ꞑ","Ꞓ","Ꞗ","Ꞙ",
           "Ꞛ","Ꞝ","Ꞟ","Ꞡ","Ꞣ","Ꞥ","Ꞧ","Ꞩ","Ɦ","Ɜ","Ɡ","Ɬ","Ɪ","Ʞ","Ʇ","Ʝ","Ꭓ","Ꞵ","Ꞷ","Ꞹ","Ꞻ",
           "Ꞽ","Ꞿ","Ꟁ","Ꟃ","Ꞔ","Ʂ","Ᶎ","Ꟈ","Ꟊ","Ꟑ","Ꟗ","Ꟙ","Ꟶ","U+FF21","U+FF22","U+FF23",
           "U+FF24","U+FF25","U+FF26","U+FF27","U+FF28","U+FF29","U+FF2A","U+FF2B","U+FF2C",
           "U+FF2D","U+FF2E","U+FF2F","U+FF30","U+FF31","U+FF32","U+FF33","U+FF34","U+FF35",
           "U+FF36","U+FF37","U+FF38","U+FF39","U+FF3A","U+10400","U+10401","U+10402","U+10403",
           "U+10404","U+10405","U+10406","U+10407","U+10408","U+10409","U+1040A","U+1040B",
           "U+1040C","U+1040D","U+1040E","U+1040F","U+10410","U+10411","U+10412","U+10413",
           "U+10414","U+10415","U+10416","U+10417","U+10418","U+10419","U+1041A","U+1041B",
           "U+1041C","U+1041D","U+1041E","U+1041F","U+10420","U+10421","U+10422","U+10423",
           "U+10424","U+10425","U+10426","U+10427","U+104B0","U+104B1","U+104B2","U+104B3",
           "U+104B4","U+104B5","U+104B6","U+104B7","U+104B8","U+104B9","U+104BA","U+104BB",
           "U+104BC","U+104BD","U+104BE","U+104BF","U+104C0","U+104C1","U+104C2","U+104C3",
           "U+104C4","U+104C5","U+104C6","U+104C7","U+104C8","U+104C9","U+104CA","U+104CB",
           "U+104CC","U+104CD","U+104CE","U+104CF","U+104D0","U+104D1","U+104D2","U+104D3",
           "U+10570","U+10571","U+10572","U+10573","U+10574","U+10575","U+10576","U+10577",
           "U+10578","U+10579","U+1057A","U+1057C","U+1057D","U+1057E","U+1057F","U+10580",
           "U+10581","U+10582","U+10583","U+10584","U+10585","U+10586","U+10587","U+10588",
           "U+10589","U+1058A","U+1058C","U+1058D","U+1058E","U+1058F","U+10590","U+10591",
           "U+10592","U+10594","U+10595","U+10C80","U+10C81","U+10C82","U+10C83","U+10C84",
           "U+10C85","U+10C86","U+10C87","U+10C88","U+10C89","U+10C8A","U+10C8B","U+10C8C",
           "U+10C8D","U+10C8E","U+10C8F","U+10C90","U+10C91","U+10C92","U+10C93","U+10C94",
           "U+10C95","U+10C96","U+10C97","U+10C98","U+10C99","U+10C9A","U+10C9B","U+10C9C",
           "U+10C9D","U+10C9E","U+10C9F","U+10CA0","U+10CA1","U+10CA2","U+10CA3","U+10CA4",
           "U+10CA5","U+10CA6","U+10CA7","U+10CA8","U+10CA9","U+10CAA","U+10CAB","U+10CAC",
           "U+10CAD","U+10CAE","U+10CAF","U+10CB0","U+10CB1","U+10CB2","U+118A0","U+118A1",
           "U+118A2","U+118A3","U+118A4","U+118A5","U+118A6","U+118A7","U+118A8","U+118A9",
           "U+118AA","U+118AB","U+118AC","U+118AD","U+118AE","U+118AF","U+118B0","U+118B1",
           "U+118B2","U+118B3","U+118B4","U+118B5","U+118B6","U+118B7","U+118B8","U+118B9",
           "U+118BA","U+118BB","U+118BC","U+118BD","U+118BE","U+118BF","U+16E40","U+16E41",
           "U+16E42","U+16E43","U+16E44","U+16E45","U+16E46","U+16E47","U+16E48","U+16E49",
           "U+16E4A","U+16E4B","U+16E4C","U+16E4D","U+16E4E","U+16E4F","U+16E50","U+16E51",
           "U+16E52","U+16E53","U+16E54","U+16E55","U+16E56","U+16E57","U+16E58","U+16E59",
           "U+16E5A","U+16E5B","U+16E5C","U+16E5D","U+16E5E","U+16E5F","U+1E900","U+1E901",
           "U+1E902","U+1E903","U+1E904","U+1E905","U+1E906","U+1E907","U+1E908","U+1E909",
           "U+1E90A","U+1E90B","U+1E90C","U+1E90D","U+1E90E","U+1E90F","U+1E910","U+1E911",
           "U+1E912","U+1E913","U+1E914","U+1E915","U+1E916","U+1E917","U+1E918","U+1E919",
           "U+1E91A","U+1E91B","U+1E91C","U+1E91D","U+1E91E","U+1E91F","U+1E920","U+1E921">>

Lowercase == <<"a","b","c","d","e","f","g","h","i","j","k","l","m","n","o","p","q","r","s","t",
               "u","v","w","x","y","z","à","á","â","ã","ä","å","æ","ç","è","é","ê","ë","ì","í",
               "î","ï","ð","ñ","ò","ó","ô","õ","ö","ø","ù","ú","û","ü","ý","þ","U+0101",
               "U+0103","U+0105","U+0107","U+0109","U+010B","U+010D","U+010F","U+0111","U+0113",
               "U+0115","U+0117","U+0119","U+011B","U+011D","U+011F","U+0121","U+0123","U+0125",
               "U+0127","U+0129","U+012B","U+012D","U+012F","U+0133","U+0135","U+0137","U+013A",
               "U+013C","U+013E","U+0140","U+0142","U+0144","U+0146","U+0148","U+014B","U+014D",
               "U+014F","U+0151","U+0153","U+0155","U+0157","U+0159","U+015B","U+015D","U+015F",
               "U+0161","U+0163","U+0165","U+0167","U+0169","U+016B","U+016D","U+016F","U+0171",
               "U+0173","U+0175","U+0177","ÿ","U+017A","U+017C","U+017E","U+0253","ƃ","ƅ",
               "U+0254","ƈ","U+0256","U+0257","ƌ","ǝ","U+0259","U+025B","ƒ","U+0260","U+0263",
               "U+0269","U+0268","ƙ","U+026F","U+0272","U+0275","ơ","ƣ","ƥ","ʀ","ƨ","ʃ","ƭ","ʈ",
               "ư","ʊ","ʋ","ƴ","ƶ","ʒ","ƹ","ƽ","ǆ","ǆ","ǉ","ǉ","ǌ","ǌ","ǎ","ǐ","ǒ","ǔ","ǖ","ǘ",
               "ǚ","ǜ","ǟ","ǡ","ǣ","ǥ","ǧ","ǩ","ǫ","ǭ","ǯ","ǳ","ǳ","ǵ","ƕ","ƿ","ǹ","ǻ","ǽ","ǿ",
               "U+0201","U+0203","U+0205","U+0207","U+0209","U+020B","U+020D","U+020F","U+0211",
               "U+0213","U+0215","U+0217","U+0219","U+021B","U+021D","U+021F","ƞ","U+0223",
               "U+0225","U+0227","U+0229","U+022B","U+022D","U+022F","U+0231","U+0233","U+2C65",
               "U+023C","ƚ","U+2C66","U+0242","ƀ","ʉ","ʌ","U+0247","U+0249","U+024B","U+024D",
               "U+024F","U+0371","U+0373","U+0377","ϳ","ά","έ","ή","ί","ό","ύ","ώ","α","β","γ",
               "δ","ε","ζ","η","θ","ι","κ","λ","μ","ν","ξ","ο","π","ρ","σ","τ","υ","φ","χ","ψ",
               "ω","ϊ","ϋ","ϗ","ϙ","ϛ","ϝ","ϟ","ϡ","ϣ","ϥ","ϧ","ϩ","ϫ","ϭ","ϯ","θ","ϸ","ϲ","ϻ",
               "U+037B","U+037C","U+037D","U+0450","U+0451","U+0452","U+0453","U+0454","U+0455",
               "U+0456","U+0457","U+0458","U+0459","U+045A","U+045B","U+045C","U+045D","U+045E",
               "U+045F","U+0430","U+0431","U+0432","U+0433","U+0434","U+0435","U+0436","U+0437",
               "U+0438","U+0439","U+043A","U+043B","U+043C","U+043D","U+043E","U+043F","U+0440",
               "U+0441","U+0442","U+0443","U+0444","U+0445","U+0446","U+0447","U+0448","U+0449",
               "U+044A","U+044B","U+044C","U+044D","U+044E","U+044F","U+0461","U+0463","U+0465",
               "U+0467","U+0469","U+046B","U+046D","U+046F","U+0471","U+0473","U+0475","U+0477",
               "U+0479","U+047B","U+047D","U+047F","ҁ","ҋ","ҍ","ҏ","ґ","ғ","ҕ","җ","ҙ","қ","ҝ",
               "ҟ","ҡ","ң","ҥ","ҧ","ҩ","ҫ","ҭ","ү","ұ","ҳ","ҵ","ҷ","ҹ","һ","ҽ","ҿ","ӏ","ӂ","ӄ",
               "ӆ","ӈ","ӊ","ӌ","ӎ","ӑ","ӓ","ӕ","ӗ","ә","ӛ","ӝ","ӟ","ӡ","ӣ","ӥ","ӧ","ө","ӫ","ӭ",
               "ӯ","ӱ","ӳ","ӵ","ӷ","ӹ","ӻ","ӽ","ӿ","U+0501","U+0503","U+0505","U+0507","U+0509",
               "U+050B","U+050D","U+050F","U+0511","U+0513","U+0515","U+0517","U+0519","U+051B",
               "U+051D","U+051F","U+0521","U+0523","U+0525","U+0527","U+0529","U+052B","U+052D",
               "U+052F","U+0561","U+0562","U+0563","U+0564","U+0565","U+0566","U+0567","U+0568",
               "U+0569","U+056A","U+056B","U+056C","U+056D","U+056E","U+056F","U+0570","U+0571",
               "U+0572","U+0573","U+0574","U+0575","U+0576","U+0577","U+0578","U+0579","U+057A",
               "U+057B","U+057C","U+057D","U+057E","U+057F","ր","ց","ւ","փ","ք","օ","ֆ",
               "U+2D00","U+2D01","U+2D02","U+2D03","U+2D04","U+2D05","U+2D06","U+2D07","U+2D08",
               "U+2D09","U+2D0A","U+2D0B","U+2D0C","U+2D0D","U+2D0E","U+2D0F","U+2D10","U+2D11",
               "U+2D12","U+2D13","U+2D14","U+2D15","U+2D16","U+2D17","U+2D18","U+2D19","U+2D1A",
               "U+2D1B","U+2D1C","U+2D1D","U+2D1E","U+2D1F","U+2D20","U+2D21","U+2D22","U+2D23",
               "U+2D24","U+2D25","U+2D27","U+2D2D","U+AB70","U+AB71","U+AB72","U+AB73","U+AB74",
               "U+AB75","U+AB76","U+AB77","U+AB78","U+AB79","U+AB7A","U+AB7B","U+AB7C","U+AB7D",
               "U+AB7E","U+AB7F","ꮀ","ꮁ","ꮂ","ꮃ","ꮄ","ꮅ","ꮆ","ꮇ","ꮈ","ꮉ","ꮊ","ꮋ","ꮌ","ꮍ","ꮎ",
               "ꮏ","ꮐ","ꮑ","ꮒ","ꮓ","ꮔ","ꮕ","ꮖ","ꮗ","ꮘ","ꮙ","ꮚ","ꮛ","ꮜ","ꮝ","ꮞ","ꮟ","ꮠ","ꮡ","ꮢ",
               "ꮣ","ꮤ","ꮥ","ꮦ","ꮧ","ꮨ","ꮩ","ꮪ","ꮫ","ꮬ","ꮭ","ꮮ","ꮯ","ꮰ","ꮱ","ꮲ","ꮳ","ꮴ","ꮵ","ꮶ",
               "ꮷ","ꮸ","ꮹ","ꮺ","ꮻ","ꮼ","ꮽ","ꮾ","ꮿ","ᏸ","ᏹ","ᏺ","ᏻ","ᏼ","ᏽ","ა","ბ","გ","დ","ე",
               "ვ","ზ","თ","ი","კ","ლ","მ","ნ","ო","პ","ჟ","რ","ს","ტ","უ","ფ","ქ","ღ","ყ","შ",
               "ჩ","ც","ძ","წ","ჭ","ხ","ჯ","ჰ","ჱ","ჲ","ჳ","ჴ","ჵ","ჶ","ჷ","ჸ","ჹ","ჺ","ჽ","ჾ",
               "ჿ","U+1E01","U+1E03","U+1E05","U+1E07","U+1E09","U+1E0B","U+1E0D","U+1E0F",
               "U+1E11","U+1E13","U+1E15","U+1E17","U+1E19","U+1E1B","U+1E1D","U+1E1F","U+1E21",
               "U+1E23","U+1E25","U+1E27","U+1E29","U+1E2B","U+1E2D","U+1E2F","U+1E31","U+1E33",
               "U+1E35","U+1E37","U+1E39","U+1E3B","U+1E3D","U+1E3F","U+1E41","U+1E43","U+1E45",
               "U+1E47","U+1E49","U+1E4B","U+1E4D","U+1E4F","U+1E51","U+1E53","U+1E55","U+1E57",
               "U+1E59","U+1E5B","U+1E5D","U+1E5F","U+1E61","U+1E63","U+1E65","U+1E67","U+1E69",
               "U+1E6B","U+1E6D","U+1E6F","U+1E71","U+1E73","U+1E75","U+1E77","U+1E79","U+1E7B",
               "U+1E7D","U+1E7F","ẁ","ẃ","ẅ","ẇ","ẉ","ẋ","ẍ","ẏ","ẑ","ẓ","ẕ","ß","ạ","ả","ấ",
               "ầ","ẩ","ẫ","ậ","ắ","ằ","ẳ","ẵ","ặ","ẹ","ẻ","ẽ","ế","ề","ể","ễ","ệ","ỉ","ị","ọ",
               "ỏ","ố","ồ","ổ","ỗ","ộ","ớ","ờ","ở","ỡ","ợ","ụ","ủ","ứ","ừ","ử","ữ","ự","ỳ","ỵ",
               "ỷ","ỹ","ỻ","ỽ","ỿ","U+1F00","U+1F01","U+1F02","U+1F03","U+1F04","U+1F05",
               "U+1F06","U+1F07","U+1F10","U+1F11","U+1F12","U+1F13","U+1F14","U+1F15","U+1F20",
               "U+1F21","U+1F22","U+1F23","U+1F24","U+1F25","U+1F26","U+1F27","U+1F30","U+1F31",
               "U+1F32","U+1F33","U+1F34","U+1F35","U+1F36","U+1F37","U+1F40","U+1F41","U+1F42",
               "U+1F43","U+1F44","U+1F45","U+1F51","U+1F53","U+1F55","U+1F57","U+1F60","U+1F61",
               "U+1F62","U+1F63","U+1F64","U+1F65","U+1F66","U+1F67","ᾀ","ᾁ","ᾂ","ᾃ","ᾄ","ᾅ",
               "ᾆ","ᾇ","ᾐ","ᾑ","ᾒ","ᾓ","ᾔ","ᾕ","ᾖ","ᾗ","ᾠ","ᾡ","ᾢ","ᾣ","ᾤ","ᾥ","ᾦ","ᾧ","ᾰ","ᾱ",
               "U+1F70","U+1F71","ᾳ","U+1F72","U+1F73","U+1F74","U+1F75","ῃ","ῐ","ῑ","U+1F76",
               "U+1F77","ῠ","ῡ","U+1F7A","U+1F7B","ῥ","U+1F78","U+1F79","U+1F7C","U+1F7D","ῳ",
               "ω","k","å","U+214E","U+2170","U+2171","U+2172","U+2173","U+2174","U+2175",
               "U+2176","U+2177","U+2178","U+2179","U+217A","U+217B","U+217C","U+217D","U+217E",
               "U+217F","ↄ","ⓐ","ⓑ","ⓒ","ⓓ","ⓔ","ⓕ","ⓖ","ⓗ","ⓘ","ⓙ","ⓚ","ⓛ","ⓜ","ⓝ","ⓞ","ⓟ","ⓠ",
               "ⓡ","ⓢ","ⓣ","ⓤ","ⓥ","ⓦ","ⓧ","ⓨ","ⓩ","U+2C30","U+2C31","U+2C32","U+2C33","U+2C34",
               "U+2C35","U+2C36","U+2C37","U+2C38","U+2C39","U+2C3A","U+2C3B","U+2C3C","U+2C3D",
               "U+2C3E","U+2C3F","U+2C40","U+2C41","U+2C42","U+2C43","U+2C44","U+2C45","U+2C46",
               "U+2C47","U+2C48","U+2C49","U+2C4A","U+2C4B","U+2C4C","U+2C4D","U+2C4E","U+2C4F",
               "U+2C50","U+2C51","U+2C52","U+2C53","U+2C54","U+2C55","U+2C56","U+2C57","U+2C58",
               "U+2C59","U+2C5A","U+2C5B","U+2C5C","U+2C5D","U+2C5E","U+2C5F","U+2C61","U+026B",
               "U+1D7D","U+027D","U+2C68","U+2C6A","U+2C6C","U+0251","U+0271","U+0250","U+0252",
               "U+2C73","U+2C76","U+023F","U+0240","ⲁ","ⲃ","ⲅ","ⲇ","ⲉ","ⲋ","ⲍ","ⲏ","ⲑ","ⲓ","ⲕ",
               "ⲗ","ⲙ","ⲛ","ⲝ","ⲟ","ⲡ","ⲣ","ⲥ","ⲧ","ⲩ","ⲫ","ⲭ","ⲯ","ⲱ","ⲳ","ⲵ","ⲷ","ⲹ","ⲻ","ⲽ",
               "ⲿ","ⳁ","ⳃ","ⳅ","ⳇ","ⳉ","ⳋ","ⳍ","ⳏ","ⳑ","ⳓ","ⳕ","ⳗ","ⳙ","ⳛ","ⳝ","ⳟ","ⳡ","ⳣ","ⳬ",
               "ⳮ","ⳳ","U+A641","U+A643","U+A645","U+A647","U+A649","U+A64B","U+A64D","U+A64F",
               "U+A651","U+A653","U+A655","U+A657","U+A659","U+A65B","U+A65D","U+A65F","U+A661",
               "U+A663","U+A665","U+A667","U+A669","U+A66B","U+A66D","ꚁ","ꚃ","ꚅ","ꚇ","ꚉ","ꚋ",
               "ꚍ","ꚏ","ꚑ","ꚓ","ꚕ","ꚗ","ꚙ","ꚛ","U+A723","U+A725","U+A727","U+A729","U+A72B",
               "U+A72D","U+A72F","U+A733","U+A735","U+A737","U+A739","U+A73B","U+A73D","U+A73F",
               "U+A741","U+A743","U+A745","U+A747","U+A749","U+A74B","U+A74D","U+A74F","U+A751",
               "U+A753","U+A755","U+A757","U+A759","U+A75B","U+A75D","U+A75F","U+A761","U+A763",
               "U+A765","U+A767","U+A769","U+A76B","U+A76D","U+A76F","U+A77A","U+A77C","U+1D79",
               "U+A77F","ꞁ","ꞃ","ꞅ","ꞇ","ꞌ","U+0265","ꞑ","ꞓ","ꞗ","ꞙ","ꞛ","ꞝ","ꞟ","ꞡ","ꞣ","ꞥ",
               "ꞧ","ꞩ","U+0266","U+025C","U+0261","U+026C","U+026A","ʞ","ʇ","ʝ","U+AB53","ꞵ",
               "ꞷ","ꞹ","ꞻ","ꞽ","ꞿ","ꟁ","ꟃ","ꞔ","ʂ","ᶎ","ꟈ","ꟊ","ꟑ","ꟗ","ꟙ","ꟶ","U+FF41",
               "U+FF42","U+FF43","U+FF44","U+FF45","U+FF46","U+FF47","U+FF48","U+FF49","U+FF4A",
               "U+FF4B","U+FF4C","U+FF4D","U+FF4E","U+FF4F","U+FF50","U+FF51","U+FF52","U+FF53",
               "U+FF54","U+FF55","U+FF56","U+FF57","U+FF58","U+FF59","U+FF5A","U+10428",
               "U+10429","U+1042A","U+1042B","U+1042C","U+1042D","U+1042E","U+1042F","U+10430",
               "U+10431","U+10432","U+10433","U+10434","U+10435","U+10436","U+10437","U+10438",
               "U+10439","U+1043A","U+1043B","U+1043C","U+1043D","U+1043E","U+1043F","U+10440",
               "U+10441","U+10442","U+10443","U+10444","U+10445","U+10446","U+10447","U+10448",
               "U+10449","U+1044A","U+1044B","U+1044C","U+1044D","U+1044E","U+1044F","U+104D8",
               "U+104D9","U+104DA","U+104DB","U+104DC","U+104DD","U+104DE","U+104DF","U+104E0",
               "U+104E1","U+104E2","U+104E3","U+104E4","U+104E5","U+104E6","U+104E7","U+104E8",
               "U+104E9","U+104EA","U+104EB","U+104EC","U+104ED","U+104EE","U+104EF","U+104F0",
               "U+104F1","U+104F2","U+104F3","U+104F4","U+104F5","U+104F6","U+104F7","U+104F8",
               "U+104F9","U+104FA","U+104FB","U+10597","U+10598","U+10599","U+1059A","U+1059B",
               "U+1059C","U+1059D","U+1059E","U+1059F","U+105A0","U+105A1","U+105A3","U+105A4",
               "U+105A5","U+105A6","U+105A7","U+105A8","U+105A9","U+105AA","U+105AB","U+105AC",
               "U+105AD","U+105AE","U+105AF","U+105B0","U+105B1","U+105B3","U+105B4","U+105B5",
               "U+105B6","U+105B7","U+105B8","U+105B9","U+105BB","U+105BC","U+10CC0","U+10CC1",
               "U+10CC2","U+10CC3","U+10CC4","U+10CC5","U+10CC6","U+10CC7","U+10CC8","U+10CC9",
               "U+10CCA","U+10CCB","U+10CCC","U+10CCD","U+10CCE","U+10CCF","U+10CD0","U+10CD1",
               "U+10CD2","U+10CD3","U+10CD4","U+10CD5","U+10CD6","U+10CD7","U+10CD8","U+10CD9",
               "U+10CDA","U+10CDB","U+10CDC","U+10CDD","U+10CDE","U+10CDF","U+10CE0","U+10CE1",
               "U+10CE2","U+10CE3","U+10CE4","U+10CE5","U+10CE6","U+10CE7","U+10CE8","U+10CE9",
               "U+10CEA","U+10CEB","U+10CEC","U+10CED","U+10CEE","U+10CEF","U+10CF0","U+10CF1",
               "U+10CF2","U+118C0","U+118C1","U+118C2","U+118C3","U+118C4","U+118C5","U+118C6",
               "U+118C7","U+118C8","U+118C9","U+118CA","U+118CB","U+118CC","U+118CD","U+118CE",
               "U+118CF","U+118D0","U+118D1","U+118D2","U+118D3","U+118D4","U+118D5","U+118D6",
               "U+118D7","U+118D8","U+118D9","U+118DA","U+118DB","U+118DC","U+118DD","U+118DE",
               "U+118DF","U+16E60","U+16E61","U+16E62","U+16E63","U+16E64","U+16E65","U+16E66",
               "U+16E67","U+16E68","U+16E69","U+16E6A","U+16E6B","U+16E6C","U+16E6D","U+16E6E",
               "U+16E6F","U+16E70","U+16E71","U+16E72","U+16E73","U+16E74","U+16E75","U+16E76",
               "U+16E77","U+16E78","U+16E79","U+16E7A","U+16E7B","U+16E7C","U+16E7D","U+16E7E",
               "U+16E7F","U+1E922","U+1E923","U+1E924","U+1E925","U+1E926","U+1E927","U+1E928",
               "U+1E929","U+1E92A","U+1E92B","U+1E92C","U+1E92D","U+1E92E","U+1E92F","U+1E930",
               "U+1E931","U+1E932","U+1E933","U+1E934","U+1E935","U+1E936","U+1E937","U+1E938",
               "U+1E939","U+1E93A","U+1E93B","U+1E93C","U+1E93D","U+1E93E","U+1E93F","U+1E940",
               "U+1E941","U+1E942","U+1E943">>

\* str.lower() of one character, but the two that take more than a table
LowerChar(c) == IF \E i \in 1..Len(Upper) : Upper[i] = c
                THEN Lowercase[CHOOSE i \in 1..Len(Upper) : Upper[i] = c]
                ELSE c

\* the cased characters that are in neither table
CasedOther == {"ª","µ","º","U+0130","U+0131","U+0138","U+0149","U+017F","ƍ","ƛ","ƪ","ƫ","ƺ","ƾ",
               "ǰ","U+0221","U+0234","U+0235","U+0236","U+0237","U+0238","U+0239","U+0255",
               "U+0258","U+025A","U+025D","U+025E","U+025F","U+0262","U+0264","U+0267","U+026D",
               "U+026E","U+0270","U+0273","U+0274","U+0276","U+0277","U+0278","U+0279","U+027A",
               "U+027B","U+027C","U+027E","U+027F","ʁ","ʄ","ʅ","ʆ","ʍ","ʎ","ʏ","ʐ","ʑ","ʓ","ʕ",
               "ʖ","ʗ","ʘ","ʙ","ʚ","ʛ","ʜ","ʟ","ʠ","ʡ","ʢ","ʣ","ʤ","ʥ","ʦ","ʧ","ʨ","ʩ","ʪ","ʫ",
               "ʬ","ʭ","ʮ","ʯ","ΐ","ΰ","ς","ϐ","ϑ","ϒ","ϓ","ϔ","ϕ","ϖ","ϰ","ϱ","ϵ","ϼ","U+0560",
               "և","ֈ","ᲀ","ᲁ","ᲂ","ᲃ","ᲄ","ᲅ","ᲆ","ᲇ","ᲈ","U+1D00","U+1D01","U+1D02","U+1D03",
               "U+1D04","U+1D05","U+1D06","U+1D07","U+1D08","U+1D09","U+1D0A","U+1D0B","U+1D0C",
               "U+1D0D","U+1D0E","U+1D0F","U+1D10","U+1D11","U+1D12","U+1D13","U+1D14","U+1D15",
               "U+1D16","U+1D17","U+1D18","U+1D19","U+1D1A","U+1D1B","U+1D1C","U+1D1D","U+1D1E",
               "U+1D1F","U+1D20","U+1D21","U+1D22","U+1D23","U+1D24","U+1D25","U+1D26","U+1D27",
               "U+1D28","U+1D29","U+1D2A","U+1D2B","U+1D6B","U+1D6C","U+1D6D","U+1D6E","U+1D6F",
               "U+1D70","U+1D71","U+1D72","U+1D73","U+1D74","U+1D75","U+1D76","U+1D77","U+1D7A",
               "U+1D7B","U+1D7C","U+1D7E","U+1D7F","ᶀ","ᶁ","ᶂ","ᶃ","ᶄ","ᶅ","ᶆ","ᶇ","ᶈ","ᶉ","ᶊ",
               "ᶋ","ᶌ","ᶍ","ᶏ","ᶐ","ᶑ","ᶒ","ᶓ","ᶔ","ᶕ","ᶖ","ᶗ","ᶘ","ᶙ","ᶚ","ẖ","ẗ","ẘ","ẙ","ẚ",
               "ẛ","ẜ","ẝ","ẟ","U+1F50","U+1F52","U+1F54","U+1F56","ᾲ","ᾴ","ᾶ","ᾷ","ι","ῂ","ῄ",
               "ῆ","ῇ","ῒ","ΐ","ῖ","ῗ","ῢ","ΰ","ῤ","ῦ","ῧ","ῲ","ῴ","ῶ","ῷ","U+2102","U+2107",
               "U+210A","U+210B","U+210C","U+210D","U+210E","U+210F","U+2110","U+2111","U+2112",
               "U+2113","U+2115","U+2119","U+211A","U+211B","U+211C","U+211D","U+2124","U+2128",
               "U+212C","U+212D","U+212F","U+2130","U+2131","U+2133","U+2134","U+2139","U+213C",
               "U+213D","U+213E","U+213F","U+2145","U+2146","U+2147","U+2148","U+2149","U+2C71",
               "U+2C74","U+2C77","U+2C78","U+2C79","U+2C7A","U+2C7B","ⳤ","U+A730","U+A731",
               "U+A771","U+A772","U+A773","U+A774","U+A775","U+A776","U+A777","U+A778","ꞎ","ꞕ",
               "ꞯ","ꟓ","ꟕ","ꟺ","U+AB30","U+AB31","U+AB32","U+AB33","U+AB34","U+AB35","U+AB36",
               "U+AB37","U+AB38","U+AB39","U+AB3A","U+AB3B","U+AB3C","U+AB3D","U+AB3E","U+AB3F",
               "U+AB40","U+AB41","U+AB42","U+AB43","U+AB44","U+AB45","U+AB46","U+AB47","U+AB48",
               "U+AB49","U+AB4A","U+AB4B","U+AB4C","U+AB4D","U+AB4E","U+AB4F","U+AB50","U+AB51",
               "U+AB52","U+AB54","U+AB55","U+AB56","U+AB57","U+AB58","U+AB59","U+AB5A","U+AB60",
               "U+AB61","U+AB62","U+AB63","U+AB64","U+AB65","U+AB66","U+AB67","U+AB68","U+FB00",
               "U+FB01","U+FB02","U+FB03","U+FB04","U+FB05","U+FB06","U+FB13","U+FB14","U+FB15",
               "U+FB16","U+FB17","U+1D400","U+1D401","U+1D402","U+1D403","U+1D404","U+1D405",
               "U+1D406","U+1D407","U+1D408","U+1D409","U+1D40A","U+1D40B","U+1D40C","U+1D40D",
               "U+1D40E","U+1D40F","U+1D410","U+1D411","U+1D412","U+1D413","U+1D414","U+1D415",
               "U+1D416","U+1D417","U+1D418","U+1D419","U+1D41A","U+1D41B","U+1D41C","U+1D41D",
               "U+1D41E","U+1D41F","U+1D420","U+1D421","U+1D422","U+1D423","U+1D424","U+1D425",
               "U+1D426","U+1D427","U+1D428","U+1D429","U+1D42A","U+1D42B","U+1D42C","U+1D42D",
               "U+1D42E","U+1D42F","U+1D430","U+1D431","U+1D432","U+1D433","U+1D434","U+1D435",
               "U+1D436","U+1D437","U+1D438","U+1D439","U+1D43A","U+1D43B","U+1D43C","U+1D43D",
               "U+1D43E","U+1D43F","U+1D440","U+1D441","U+1D442","U+1D443","U+1D444","U+1D445",
               "U+1D446","U+1D447","U+1D448","U+1D449","U+1D44A","U+1D44B","U+1D44C","U+1D44D",
               "U+1D44E","U+1D44F","U+1D450","U+1D451","U+1D452","U+1D453","U+1D454","U+1D456",
               "U+1D457","U+1D458","U+1D459","U+1D45A","U+1D45B","U+1D45C","U+1D45D","U+1D45E",
               "U+1D45F","U+1D460","U+1D461","U+1D462","U+1D463","U+1D464","U+1D465","U+1D466",
               "U+1D467","U+1D468","U+1D469","U+1D46A","U+1D46B","U+1D46C","U+1D46D","U+1D46E",
               "U+1D46F","U+1D470","U+1D471","U+1D472","U+1D473","U+1D474","U+1D475","U+1D476",
               "U+1D477","U+1D478","U+1D479","U+1D47A","U+1D47B","U+1D47C","U+1D47D","U+1D47E",
               "U+1D47F","U+1D480","U+1D481","U+1D482","U+1D483","U+1D484","U+1D485","U+1D486",
               "U+1D487","U+1D488","U+1D489","U+1D48A","U+1D48B","U+1D48C","U+1D48D","U+1D48E",
               "U+1D48F","U+1D490","U+1D491","U+1D492","U+1D493","U+1D494","U+1D495","U+1D496",
               "U+1D497","U+1D498","U+1D499","U+1D49A","U+1D49B","U+1D49C","U+1D49E","U+1D49F",
               "U+1D4A2","U+1D4A5","U+1D4A6","U+1D4A9","U+1D4AA","U+1D4AB","U+1D4AC","U+1D4AE",
               "U+1D4AF","U+1D4B0","U+1D4B1","U+1D4B2","U+1D4B3","U+1D4B4","U+1D4B5","U+1D4B6",
               "U+1D4B7","U+1D4B8","U+1D4B9","U+1D4BB","U+1D4BD","U+1D4BE","U+1D4BF","U+1D4C0",
               "U+1D4C1","U+1D4C2","U+1D4C3","U+1D4C5","U+1D4C6","U+1D4C7","U+1D4C8","U+1D4C9",
               "U+1D4CA","U+1D4CB","U+1D4CC","U+1D4CD","U+1D4CE","U+1D4CF","U+1D4D0","U+1D4D1",
               "U+1D4D2","U+1D4D3","U+1D4D4","U+1D4D5","U+1D4D6","U+1D4D7","U+1D4D8","U+1D4D9",
               "U+1D4DA","U+1D4DB","U+1D4DC","U+1D4DD","U+1D4DE","U+1D4DF","U+1D4E0","U+1D4E1",
               "U+1D4E2","U+1D4E3","U+1D4E4","U+1D4E5","U+1D4E6","U+1D4E7","U+1D4E8","U+1D4E9",
               "U+1D4EA","U+1D4EB","U+1D4EC","U+1D4ED","U+1D4EE","U+1D4EF","U+1D4F0","U+1D4F1",
               "U+1D4F2","U+1D4F3","U+1D4F4","U+1D4F5","U+1D4F6","U+1D4F7","U+1D4F8","U+1D4F9",
               "U+1D4FA","U+1D4FB","U+1D4FC","U+1D4FD","U+1D4FE","U+1D4FF","U+1D500","U+1D501",
               "U+1D502","U+1D503","U+1D504","U+1D505","U+1D507","U+1D508","U+1D509","U+1D50A",
               "U+1D50D","U+1D50E","U+1D50F","U+1D510","U+1D511","U+1D512","U+1D513","U+1D514",
               "U+1D516","U+1D517","U+1D518","U+1D519","U+1D51A","U+1D51B","U+1D51C","U+1D51E",
               "U+1D51F","U+1D520","U+1D521","U+1D522","U+1D523","U+1D524","U+1D525","U+1D526",
               "U+1D527","U+1D528","U+1D529","U+1D52A","U+1D52B","U+1D52C","U+1D52D","U+1D52E",
               "U+1D52F","U+1D530","U+1D531","U+1D532","U+1D533","U+1D534","U+1D535","U+1D536",
               "U+1D537","U+1D538","U+1D539","U+1D53B","U+1D53C","U+1D53D","U+1D53E","U+1D540",
               "U+1D541","U+1D542","U+1D543","U+1D544","U+1D546","U+1D54A","U+1D54B","U+1D54C",
               "U+1D54D","U+1D54E","U+1D54F","U+1D550","U+1D552","U+1D553","U+1D554","U+1D555",
               "U+1D556","U+1D557","U+1D558","U+1D559","U+1D55A","U+1D55B","U+1D55C","U+1D55D",
               "U+1D55E","U+1D55F","U+1D560","U+1D561","U+1D562","U+1D563","U+1D564","U+1D565",
               "U+1D566","U+1D567","U+1D568","U+1D569","U+1D56A","U+1D56B","U+1D56C","U+1D56D",
               "U+1D56E","U+1D56F","U+1D570","U+1D571","U+1D572","U+1D573","U+1D574","U+1D575",
               "U+1D576","U+1D577","U+1D578","U+1D579","U+1D57A","U+1D57B","U+1D57C","U+1D57D",
               "U+1D57E","U+1D57F","U+1D580","U+1D581","U+1D582","U+1D583","U+1D584","U+1D585",
               "U+1D586","U+1D587","U+1D588","U+1D589","U+1D58A","U+1D58B","U+1D58C","U+1D58D",
               "U+1D58E","U+1D58F","U+1D590","U+1D591","U+1D592","U+1D593","U+1D594","U+1D595",
               "U+1D596","U+1D597","U+1D598","U+1D599","U+1D59A","U+1D59B","U+1D59C","U+1D59D",
               "U+1D59E","U+1D59F","U+1D5A0","U+1D5A1","U+1D5A2","U+1D5A3","U+1D5A4","U+1D5A5",
               "U+1D5A6","U+1D5A7","U+1D5A8","U+1D5A9","U+1D5AA","U+1D5AB","U+1D5AC","U+1D5AD",
               "U+1D5AE","U+1D5AF","U+1D5B0","U+1D5B1","U+1D5B2","U+1D5B3","U+1D5B4","U+1D5B5",
               "U+1D5B6","U+1D5B7","U+1D5B8","U+1D5B9","U+1D5BA","U+1D5BB","U+1D5BC","U+1D5BD",
               "U+1D5BE","U+1D5BF","U+1D5C0","U+1D5C1","U+1D5C2","U+1D5C3","U+1D5C4","U+1D5C5",
               "U+1D5C6","U+1D5C7","U+1D5C8","U+1D5C9","U+1D5CA","U+1D5CB","U+1D5CC","U+1D5CD",
               "U+1D5CE","U+1D5CF","U+1D5D0","U+1D5D1","U+1D5D2","U+1D5D3","U+1D5D4","U+1D5D5",
               "U+1D5D6","U+1D5D7","U+1D5D8","U+1D5D9","U+1D5DA","U+1D5DB","U+1D5DC","U+1D5DD",
               "U+1D5DE","U+1D5DF","U+1D5E0","U+1D5E1","U+1D5E2","U+1D5E3","U+1D5E4","U+1D5E5",
               "U+1D5E6","U+1D5E7","U+1D5E8","U+1D5E9","U+1D5EA","U+1D5EB","U+1D5EC","U+1D5ED",
               "U+1D5EE","U+1D5EF","U+1D5F0","U+1D5F1","U+1D5F2","U+1D5F3","U+1D5F4","U+1D5F5",
               "U+1D5F6","U+1D5F7","U+1D5F8","U+1D5F9","U+1D5FA","U+1D5FB","U+1D5FC","U+1D5FD",
               "U+1D5FE","U+1D5FF","U+1D600","U+1D601","U+1D602","U+1D603","U+1D604","U+1D605",
               "U+1D606","U+1D607","U+1D608","U+1D609","U+1D60A","U+1D60B","U+1D60C","U+1D60D",
               "U+1D60E","U+1D60F","U+1D610","U+1D611","U+1D612","U+1D613","U+1D614","U+1D615",
               "U+1D616","U+1D617","U+1D618","U+1D619","U+1D61A","U+1D61B","U+1D61C","U+1D61D",
               "U+1D61E","U+1D61F","U+1D620","U+1D621","U+1D622","U+1D623","U+1D624","U+1D625",
               "U+1D626","U+1D627","U+1D628","U+1D629","U+1D62A","U+1D62B","U+1D62C","U+1D62D",
               "U+1D62E","U+1D62F","U+1D630","U+1D631","U+1D632","U+1D633","U+1D634","U+1D635",
               "U+1D636","U+1D637","U+1D638","U+1D639","U+1D63A","U+1D63B","U+1D63C","U+1D63D",
               "U+1D63E","U+1D63F","U+1D640","U+1D641","U+1D642","U+1D643","U+1D644","U+1D645",
               "U+1D646","U+1D647","U+1D648","U+1D649","U+1D64A","U+1D64B","U+1D64C","U+1D64D",
               "U+1D64E","U+1D64F","U+1D650","U+1D651","U+1D652","U+1D653","U+1D654","U+1D655",
               "U+1D656","U+1D657","U+1D658","U+1D659","U+1D65A","U+1D65B","U+1D65C","U+1D65D",
               "U+1D65E","U+1D65F","U+1D660","U+1D661","U+1D662","U+1D663","U+1D664","U+1D665",
               "U+1D666","U+1D667","U+1D668","U+1D669","U+1D66A","U+1D66B","U+1D66C","U+1D66D",
               "U+1D66E","U+1D66F","U+1D670","U+1D671","U+1D672","U+1D673","U+1D674","U+1D675",
               "U+1D676","U+1D677","U+1D678","U+1D679","U+1D67A","U+1D67B","U+1D67C","U+1D67D",
               "U+1D67E","U+1D67F","U+1D680","U+1D681","U+1D682","U+1D683","U+1D684","U+1D685",
               "U+1D686","U+1D687","U+1D688","U+1D689","U+1D68A","U+1D68B","U+1D68C","U+1D68D",
               "U+1D68E","U+1D68F","U+1D690","U+1D691","U+1D692","U+1D693","U+1D694","U+1D695",
               "U+1D696","U+1D697","U+1D698","U+1D699","U+1D69A","U+1D69B","U+1D69C","U+1D69D",
               "U+1D69E","U+1D69F","U+1D6A0","U+1D6A1","U+1D6A2","U+1D6A3","U+1D6A4","U+1D6A5",
               "U+1D6A8","U+1D6A9","U+1D6AA","U+1D6AB","U+1D6AC","U+1D6AD","U+1D6AE","U+1D6AF",
               "U+1D6B0","U+1D6B1","U+1D6B2","U+1D6B3","U+1D6B4","U+1D6B5","U+1D6B6","U+1D6B7",
               "U+1D6B8","U+1D6B9","U+1D6BA","U+1D6BB","U+1D6BC","U+1D6BD","U+1D6BE","U+1D6BF",
               "U+1D6C0","U+1D6C2","U+1D6C3","U+1D6C4","U+1D6C5","U+1D6C6","U+1D6C7","U+1D6C8",
               "U+1D6C9","U+1D6CA","U+1D6CB","U+1D6CC","U+1D6CD","U+1D6CE","U+1D6CF","U+1D6D0",
               "U+1D6D1","U+1D6D2","U+1D6D3","U+1D6D4","U+1D6D5","U+1D6D6","U+1D6D7","U+1D6D8",
               "U+1D6D9","U+1D6DA","U+1D6DC","U+1D6DD","U+1D6DE","U+1D6DF","U+1D6E0","U+1D6E1",
               "U+1D6E2","U+1D6E3","U+1D6E4","U+1D6E5","U+1D6E6","U+1D6E7","U+1D6E8","U+1D6E9",
               "U+1D6EA","U+1D6EB","U+1D6EC","U+1D6ED","U+1D6EE","U+1D6EF","U+1D6F0","U+1D6F1",
               "U+1D6F2","U+1D6F3","U+1D6F4","U+1D6F5","U+1D6F6","U+1D6F7","U+1D6F8","U+1D6F9",
               "U+1D6FA","U+1D6FC","U+1D6FD","U+1D6FE","U+1D6FF","U+1D700","U+1D701","U+1D702",
               "U+1D703","U+1D704","U+1D705","U+1D706","U+1D707","U+1D708","U+1D709","U+1D70A",
               "U+1D70B","U+1D70C","U+1D70D","U+1D70E","U+1D70F","U+1D710","U+1D711","U+1D712",
               "U+1D713","U+1D714","U+1D716","U+1D717","U+1D718","U+1D719","U+1D71A","U+1D71B",
               "U+1D71C","U+1D71D","U+1D71E","U+1D71F","U+1D720","U+1D721","U+1D722","U+1D723",
               "U+1D724","U+1D725","U+1D726","U+1D727","U+1D728","U+1D729","U+1D72A","U+1D72B",
               "U+1D72C","U+1D72D","U+1D72E","U+1D72F","U+1D730","U+1D731","U+1D732","U+1D733",
               "U+1D734","U+1D736","U+1D737","U+1D738","U+1D739","U+1D73A","U+1D73B","U+1D73C",
               "U+1D73D","U+1D73E","U+1D73F","U+1D740","U+1D741","U+1D742","U+1D743","U+1D744",
               "U+1D745","U+1D746","U+1D747","U+1D748","U+1D749","U+1D74A","U+1D74B","U+1D74C",
               "U+1D74D","U+1D74E","U+1D750","U+1D751","U+1D752","U+1D753","U+1D754","U+1D755",
               "U+1D756","U+1D757","U+1D758","U+1D759","U+1D75A","U+1D75B","U+1D75C","U+1D75D",
               "U+1D75E","U+1D75F","U+1D760","U+1D761","U+1D762","U+1D763","U+1D764","U+1D765",
               "U+1D766","U+1D767","U+1D768","U+1D769","U+1D76A","U+1D76B","U+1D76C","U+1D76D",
               "U+1D76E","U+1D770","U+1D771","U+1D772","U+1D773","U+1D774","U+1D775","U+1D776",
               "U+1D777","U+1D778","U+1D779","U+1D77A","U+1D77B","U+1D77C","U+1D77D","U+1D77E",
               "U+1D77F","U+1D780","U+1D781","U+1D782","U+1D783","U+1D784","U+1D785","U+1D786",
               "U+1D787","U+1D788","U+1D78A","U+1D78B","U+1D78C","U+1D78D","U+1D78E","U+1D78F",
               "U+1D790","U+1D791","U+1D792","U+1D793","U+1D794","U+1D795","U+1D796","U+1D797",
               "U+1D798","U+1D799","U+1D79A","U+1D79B","U+1D79C","U+1D79D","U+1D79E","U+1D79F",
               "U+1D7A0","U+1D7A1","U+1D7A2","U+1D7A3","U+1D7A4","U+1D7A5","U+1D7A6","U+1D7A7",
               "U+1D7A8","U+1D7AA","U+1D7AB","U+1D7AC","U+1D7AD","U+1D7AE","U+1D7AF","U+1D7B0",
               "U+1D7B1","U+1D7B2","U+1D7B3","U+1D7B4","U+1D7B5","U+1D7B6","U+1D7B7","U+1D7B8",
               "U+1D7B9","U+1D7BA","U+1D7BB","U+1D7BC","U+1D7BD","U+1D7BE","U+1D7BF","U+1D7C0",
               "U+1D7C1","U+1D7C2","U+1D7C4","U+1D7C5","U+1D7C6","U+1D7C7","U+1D7C8","U+1D7C9",
               "U+1D7CA","U+1D7CB","U+1DF00","U+1DF01","U+1DF02","U+1DF03","U+1DF04","U+1DF05",
               "U+1DF06","U+1DF07","U+1DF08","U+1DF09","U+1DF0B","U+1DF0C","U+1DF0D","U+1DF0E",
               "U+1DF0F","U+1DF10","U+1DF11","U+1DF12","U+1DF13","U+1DF14","U+1DF15","U+1DF16",
               "U+1DF17","U+1DF18","U+1DF19","U+1DF1A","U+1DF1B","U+1DF1C","U+1DF1D","U+1DF1E",
               "U+1F130","U+1F131","U+1F132","U+1F133","U+1F134","U+1F135","U+1F136","U+1F137",
               "U+1F138","U+1F139","U+1F13A","U+1F13B","U+1F13C","U+1F13D","U+1F13E","U+1F13F",
               "U+1F140","U+1F141","U+1F142","U+1F143","U+1F144","U+1F145","U+1F146","U+1F147",
               "U+1F148","U+1F149","U+1F150","U+1F151","U+1F152","U+1F153","U+1F154","U+1F155",
               "U+1F156","U+1F157","U+1F158","U+1F159","U+1F15A","U+1F15B","U+1F15C","U+1F15D",
               "U+1F15E","U+1F15F","U+1F160","U+1F161","U+1F162","U+1F163","U+1F164","U+1F165",
               "U+1F166","U+1F167","U+1F168","U+1F169","U+1F170","U+1F171","U+1F172","U+1F173",
               "U+1F174","U+1F175","U+1F176","U+1F177","U+1F178","U+1F179","U+1F17A","U+1F17B",
               "U+1F17C","U+1F17D","U+1F17E","U+1F17F","U+1F180","U+1F181","U+1F182","U+1F183",
               "U+1F184","U+1F185","U+1F186","U+1F187","U+1F188","U+1F189"}

\* the characters that the final-sigma rule of str.lower() looks through
CaseIgnorable == {"'",".",":","^","U+0060","¨","­","¯","´","·","¸","ʰ","ʱ","ʲ","ʳ","ʴ","ʵ","ʶ",
                  "ʷ","ʸ","ʹ","ʺ","ʻ","ʼ","ʽ","ʾ","ʿ","ˀ","ˁ","˂","˃","˄","˅","ˆ","ˇ","ˈ","ˉ",
                  "ˊ","ˋ","ˌ","ˍ","ˎ","ˏ","ː","ˑ","˒","˓","˔","˕","˖","˗","˘","˙","˚","˛","˜",
                  "˝","˞","˟","ˠ","ˡ","ˢ","ˣ","ˤ","˥","˦","˧","˨","˩","˪","˫","ˬ","˭","ˮ","˯",
                  "˰","˱","˲","˳","˴","˵","˶","˷","˸","˹","˺","˻","˼","˽","˾","˿","U+0300",
                  "U+0301","U+0302","U+0303","U+0304","U+0305","U+0306","U+0307","U+0308",
                  "U+0309","U+030A","U+030B","U+030C","U+030D","U+030E","U+030F","U+0310",
                  "U+0311","U+0312","U+0313","U+0314","U+0315","U+0316","U+0317","U+0318",
                  "U+0319","U+031A","U+031B","U+031C","U+031D","U+031E","U+031F","U+0320",
                  "U+0321","U+0322","U+0323","U+0324","U+0325","U+0326","U+0327","U+0328",
                  "U+0329","U+032A","U+032B","U+032C","U+032D","U+032E","U+032F","U+0330",
                  "U+0331","U+0332","U+0333","U+0334","U+0335","U+0336","U+0337","U+0338",
                  "U+0339","U+033A","U+033B","U+033C","U+033D","U+033E","U+033F","U+0340",
                  "U+0341","U+0342","U+0343","U+0344","U+0345","U+0346","U+0347","U+0348",
                  "U+0349","U+034A","U+034B","U+034C","U+034D","U+034E","U+034F","U+0350",
                  "U+0351","U+0352","U+0353","U+0354","U+0355","U+0356","U+0357","U+0358",
                  "U+0359","U+035A","U+035B","U+035C","U+035D","U+035E","U+035F","U+0360",
                  "U+0361","U+0362","U+0363","U+0364","U+0365","U+0366","U+0367","U+0368",
                  "U+0369","U+036A","U+036B","U+036C","U+036D","U+036E","U+036F","U+0374",
                  "U+0375","U+037A","΄","΅","·","҃","҄","҅","҆","҇","҈","҉","U+0559","U+055F",
                  "֑","֒","֓","֔","֕","֖","֗","֘","֙","֚","֛","֜","֝","֞","֟","֠","֡","֢","֣",
                  "֤","֥","֦","֧","֨","֩","֪","֫","֬","֭","֮","֯","ְ","ֱ","ֲ","ֳ","ִ","ֵ","ֶ",
                  "ַ","ָ","ֹ","ֺ","ֻ","ּ","ֽ","ֿ","ׁ","ׂ","ׄ","ׅ","ׇ","״","U+0600","U+0601",
                  "U+0602","U+0603","U+0604","U+0605","U+0610","U+0611","U+0612","U+0613",
                  "U+0614","U+0615","U+0616","U+0617","U+0618","U+0619","U+061A","U+061C",
                  "U+0640","U+064B","U+064C","U+064D","U+064E","U+064F","U+0650","U+0651",
                  "U+0652","U+0653","U+0654","U+0655","U+0656","U+0657","U+0658","U+0659",
                  "U+065A","U+065B","U+065C","U+065D","U+065E","U+065F","U+0670","ۖ","ۗ","ۘ",
                  "ۙ","ۚ","ۛ","ۜ","۝","۟","۠","ۡ","ۢ","ۣ","ۤ","ۥ","ۦ","ۧ","ۨ","۪","۫","۬","ۭ",
                  "U+070F","U+0711","U+0730","U+0731","U+0732","U+0733","U+0734","U+0735",
                  "U+0736","U+0737","U+0738","U+0739","U+073A","U+073B","U+073C","U+073D",
                  "U+073E","U+073F","U+0740","U+0741","U+0742","U+0743","U+0744","U+0745",
                  "U+0746","U+0747","U+0748","U+0749","U+074A","ަ","ާ","ި","ީ","ު","ޫ","ެ","ޭ",
                  "ޮ","ޯ","ް","߫","߬","߭","߮","߯","߰","߱","߲","߳","ߴ","ߵ","ߺ","߽","U+0816",
                  "U+0817","U+0818","U+0819","U+081A","U+081B","U+081C","U+081D","U+081E",
                  "U+081F","U+0820","U+0821","U+0822","U+0823","U+0824","U+0825","U+0826",
                  "U+0827","U+0828","U+0829","U+082A","U+082B","U+082C","U+082D","U+0859",
                  "U+085A","U+085B","࢈","࢐","࢑","࢘","࢙","࢚","࢛","࢜","࢝","࢞","࢟","ࣉ","࣊","࣋","࣌",
                  "࣍","࣎","࣏","࣐","࣑","࣒","࣓","ࣔ","ࣕ","ࣖ","ࣗ","ࣘ","ࣙ","ࣚ","ࣛ","ࣜ","ࣝ","ࣞ","ࣟ",
                  "࣠","࣡","࣢","ࣣ","ࣤ","ࣥ","ࣦ","ࣧ","ࣨ","ࣩ","࣪","࣫","࣬","࣭","࣮","࣯","ࣰ","ࣱ","ࣲ",
                  "ࣳ","ࣴ","ࣵ","ࣶ","ࣷ","ࣸ","ࣹ","ࣺ","ࣻ","ࣼ","ࣽ","ࣾ","ࣿ","U+0900","U+0901",
                  "U+0902","U+093A","U+093C","U+0941","U+0942","U+0943","U+0944","U+0945",
                  "U+0946","U+0947","U+0948","U+094D","U+0951","U+0952","U+0953","U+0954",
                  "U+0955","U+0956","U+0957","U+0962","U+0963","U+0971","ঁ","়","ু","ূ","ৃ","ৄ",
                  "্","ৢ","ৣ","৾","U+0A01","U+0A02","U+0A3C","U+0A41","U+0A42","U+0A47",
                  "U+0A48","U+0A4B","U+0A4C","U+0A4D","U+0A51","U+0A70","U+0A71","U+0A75","ઁ",
                  "ં","઼","ુ","ૂ","ૃ","ૄ","ૅ","ે","ૈ","્","ૢ","ૣ","ૺ","ૻ","ૼ","૽","૾","૿",
                  "U+0B01","U+0B3C","U+0B3F","U+0B41","U+0B42","U+0B43","U+0B44","U+0B4D",
                  "U+0B55","U+0B56","U+0B62","U+0B63","ஂ","ீ","்","U+0C00","U+0C04","U+0C3C",
                  "U+0C3E","U+0C3F","U+0C40","U+0C46","U+0C47","U+0C48","U+0C4A","U+0C4B",
                  "U+0C4C","U+0C4D","U+0C55","U+0C56","U+0C62","U+0C63","ಁ","಼","ಿ","ೆ","ೌ","್",
                  "ೢ","ೣ","U+0D00","U+0D01","U+0D3B","U+0D3C","U+0D41","U+0D42","U+0D43",
                  "U+0D44","U+0D4D","U+0D62","U+0D63","ඁ","්","ි","ී","ු","ූ","U+0E31","U+0E34",
                  "U+0E35","U+0E36","U+0E37","U+0E38","U+0E39","U+0E3A","U+0E46","U+0E47",
                  "U+0E48","U+0E49","U+0E4A","U+0E4B","U+0E4C","U+0E4D","U+0E4E","ັ","ິ","ີ",
                  "ຶ","ື","ຸ","ູ","຺","ົ","ຼ","ໆ","່","້","໊","໋","໌","ໍ","U+0F18","U+0F19",
                  "U+0F35","U+0F37","U+0F39","U+0F71","U+0F72","U+0F73","U+0F74","U+0F75",
                  "U+0F76","U+0F77","U+0F78","U+0F79","U+0F7A","U+0F7B","U+0F7C","U+0F7D",
                  "U+0F7E","ྀ","ཱྀ","ྂ","ྃ","྄","྆","྇","ྍ","ྎ","ྏ","ྐ","ྑ","ྒ","ྒྷ","ྔ","ྕ","ྖ",
                  "ྗ","ྙ","ྚ","ྛ","ྜ","ྜྷ","ྞ","ྟ","ྠ","ྡ","ྡྷ","ྣ","ྤ","ྥ","ྦ","ྦྷ","ྨ","ྩ","ྪ",
                  "ྫ","ྫྷ","ྭ","ྮ","ྯ","ྰ","ྱ","ྲ","ླ","ྴ","ྵ","ྶ","ྷ","ྸ","ྐྵ","ྺ","ྻ","ྼ","࿆",
                  "U+102D","U+102E","U+102F","U+1030","U+1032","U+1033","U+1034","U+1035",
                  "U+1036","U+1037","U+1039","U+103A","U+103D","U+103E","U+1058","U+1059",
                  "U+105E","U+105F","U+1060","U+1071","U+1072","U+1073","U+1074","ႂ","ႅ","ႆ",
                  "ႍ","ႝ","ჼ","U+135D","U+135E","U+135F","U+1712","U+1713","U+1714","U+1732",
                  "U+1733","U+1752","U+1753","U+1772","U+1773","឴","឵","ិ","ី","ឹ","ឺ","ុ","ូ",
                  "ួ","ំ","៉","៊","់","៌","៍","៎","៏","័","៑","្","៓","ៗ","៝","U+180B","U+180C",
                  "U+180D","U+180E","U+180F","U+1843","ᢅ","ᢆ","ᢩ","U+1920","U+1921","U+1922",
                  "U+1927","U+1928","U+1932","U+1939","U+193A","U+193B","U+1A17","U+1A18",
                  "U+1A1B","U+1A56","U+1A58","U+1A59","U+1A5A","U+1A5B","U+1A5C","U+1A5D",
                  "U+1A5E","U+1A60","U+1A62","U+1A65","U+1A66","U+1A67","U+1A68","U+1A69",
                  "U+1A6A","U+1A6B","U+1A6C","U+1A73","U+1A74","U+1A75","U+1A76","U+1A77",
                  "U+1A78","U+1A79","U+1A7A","U+1A7B","U+1A7C","U+1A7F","ᪧ","᪰","᪱","᪲","᪳","᪴",
                  "᪵","᪶","᪷","᪸","᪹","᪺","᪻","᪼","᪽","᪾","ᪿ","ᫀ","᫁","᫂","᫃","᫄","᫅","᫆","᫇",
                  "᫈","᫉","᫊","᫋","ᫌ","ᫍ","ᫎ","U+1B00","U+1B01","U+1B02","U+1B03","U+1B34",
                  "U+1B36","U+1B37","U+1B38","U+1B39","U+1B3A","U+1B3C","U+1B42","U+1B6B",
                  "U+1B6C","U+1B6D","U+1B6E","U+1B6F","U+1B70","U+1B71","U+1B72","U+1B73","ᮀ",
                  "ᮁ","ᮢ","ᮣ","ᮤ","ᮥ","ᮨ","ᮩ","᮫","ᮬ","ᮭ","᯦","ᯨ","ᯩ","ᯭ","ᯯ","ᯰ","ᯱ","U+1C2C",
                  "U+1C2D","U+1C2E","U+1C2F","U+1C30","U+1C31","U+1C32","U+1C33","U+1C36",
                  "U+1C37","U+1C78","U+1C79","U+1C7A","U+1C7B","U+1C7C","U+1C7D","᳐","᳑","᳒",
                  "᳔","᳕","᳖","᳗","᳘","᳙","᳚","᳛","᳜","᳝","᳞","᳟","᳠","᳢","᳣","᳤","᳥","᳦","᳧",
                  "᳨","᳭","᳴","᳸","᳹","U+1D2C","U+1D2D","U+1D2E","U+1D2F","U+1D30","U+1D31",
                  "U+1D32","U+1D33","U+1D34","U+1D35","U+1D36","U+1D37","U+1D38","U+1D39",
                  "U+1D3A","U+1D3B","U+1D3C","U+1D3D","U+1D3E","U+1D3F","U+1D40","U+1D41",
                  "U+1D42","U+1D43","U+1D44","U+1D45","U+1D46","U+1D47","U+1D48","U+1D49",
                  "U+1D4A","U+1D4B","U+1D4C","U+1D4D","U+1D4E","U+1D4F","U+1D50","U+1D51",
                  "U+1D52","U+1D53","U+1D54","U+1D55","U+1D56","U+1D57","U+1D58","U+1D59",
                  "U+1D5A","U+1D5B","U+1D5C","U+1D5D","U+1D5E","U+1D5F","U+1D60","U+1D61",
                  "U+1D62","U+1D63","U+1D64","U+1D65","U+1D66","U+1D67","U+1D68","U+1D69",
                  "U+1D6A","U+1D78","ᶛ","ᶜ","ᶝ","ᶞ","ᶟ","ᶠ","ᶡ","ᶢ","ᶣ","ᶤ","ᶥ","ᶦ","ᶧ","ᶨ","ᶩ",
                  "ᶪ","ᶫ","ᶬ","ᶭ","ᶮ","ᶯ","ᶰ","ᶱ","ᶲ","ᶳ","ᶴ","ᶵ","ᶶ","ᶷ","ᶸ","ᶹ","ᶺ","ᶻ","ᶼ",
                  "ᶽ","ᶾ","ᶿ","᷀","᷁","᷂","᷃","᷄","᷅","᷆","᷇","᷈","᷉","᷊","᷋","᷌","᷍","᷎","᷏",
                  "᷐","᷑","᷒","ᷓ","ᷔ","ᷕ","ᷖ","ᷗ","ᷘ","ᷙ","ᷚ","ᷛ","ᷜ","ᷝ","ᷞ","ᷟ","ᷠ","ᷡ","ᷢ",
                  "ᷣ","ᷤ","ᷥ","ᷦ","ᷧ","ᷨ","ᷩ","ᷪ","ᷫ","ᷬ","ᷭ","ᷮ","ᷯ","ᷰ","ᷱ","ᷲ","ᷳ","ᷴ","᷵",
                  "᷶","᷷","᷸","᷹","᷺","᷻","᷼","᷽","᷾","᷿","᾽","᾿","῀","῁","῍","῎","῏","῝","῞",
                  "῟","῭","΅","`","´","῾","U+200B","U+200C","U+200D","U+200E","U+200F","U+2018",
                  "U+2019","U+2024","U+2027","U+202A","U+202B","U+202C","U+202D","U+202E",
                  "U+2060","U+2061","U+2062","U+2063","U+2064","U+2066","U+2067","U+2068",
                  "U+2069","U+206A","U+206B","U+206C","U+206D","U+206E","U+206F","U+2071",
                  "U+207F","ₐ","ₑ","ₒ","ₓ","ₔ","ₕ","ₖ","ₗ","ₘ","ₙ","ₚ","ₛ","ₜ","⃐","⃑","⃒","⃓",
                  "⃔","⃕","⃖","⃗","⃘","⃙","⃚","⃛","⃜","⃝","⃞","⃟","⃠","⃡","⃢","⃣","⃤","⃥","⃦",
                  "⃧","⃨","⃩","⃪","⃫","⃬","⃭","⃮","⃯","⃰","U+2C7C","U+2C7D","⳯","⳰","⳱",
                  "U+2D6F","U+2D7F","ⷠ","ⷡ","ⷢ","ⷣ","ⷤ","ⷥ","ⷦ","ⷧ","ⷨ","ⷩ","ⷪ","ⷫ","ⷬ","ⷭ","ⷮ",
                  "ⷯ","ⷰ","ⷱ","ⷲ","ⷳ","ⷴ","ⷵ","ⷶ","ⷷ","ⷸ","ⷹ","ⷺ","ⷻ","ⷼ","ⷽ","ⷾ","ⷿ","U+2E2F",
                  "U+3005","U+302A","U+302B","U+302C","U+302D","U+3031","U+3032","U+3033",
                  "U+3034","U+3035","U+303B","゙","゚","゛","゜","ゝ","ゞ","ー","ヽ","ヾ","U+A015","ꓸ",
                  "ꓹ","ꓺ","ꓻ","ꓼ","ꓽ","U+A60C","U+A66F","U+A670","U+A671","U+A672","U+A674",
                  "U+A675","U+A676","U+A677","U+A678","U+A679","U+A67A","U+A67B","U+A67C",
                  "U+A67D","U+A67F","ꚜ","ꚝ","ꚞ","ꚟ","꛰","꛱","U+A700","U+A701","U+A702","U+A703",
                  "U+A704","U+A705","U+A706","U+A707","U+A708","U+A709","U+A70A","U+A70B",
                  "U+A70C","U+A70D","U+A70E","U+A70F","U+A710","U+A711","U+A712","U+A713",
                  "U+A714","U+A715","U+A716","U+A717","U+A718","U+A719","U+A71A","U+A71B",
                  "U+A71C","U+A71D","U+A71E","U+A71F","U+A720","U+A721","U+A770","ꞈ","꞉","꞊",
                  "ꟲ","ꟳ","ꟴ","ꟸ","ꟹ","U+A802","U+A806","U+A80B","U+A825","U+A826","U+A82C","꣄",
                  "ꣅ","꣠","꣡","꣢","꣣","꣤","꣥","꣦","꣧","꣨","꣩","꣪","꣫","꣬","꣭","꣮","꣯","꣰","꣱",
                  "ꣿ","U+A926","U+A927","U+A928","U+A929","U+A92A","U+A92B","U+A92C","U+A92D",
                  "U+A947","U+A948","U+A949","U+A94A","U+A94B","U+A94C","U+A94D","U+A94E",
                  "U+A94F","U+A950","U+A951","ꦀ","ꦁ","ꦂ","꦳","ꦶ","ꦷ","ꦸ","ꦹ","ꦼ","ꦽ","ꧏ","ꧥ",
                  "ꧦ","U+AA29","U+AA2A","U+AA2B","U+AA2C","U+AA2D","U+AA2E","U+AA31","U+AA32",
                  "U+AA35","U+AA36","U+AA43","U+AA4C","U+AA70","U+AA7C","ꪰ","ꪲ","ꪳ","ꪴ","ꪷ","ꪸ",
                  "ꪾ","꪿","꫁","ꫝ","ꫬ","ꫭ","ꫳ","ꫴ","꫶","U+AB5B","U+AB5C","U+AB5D","U+AB5E",
                  "U+AB5F","U+AB69","U+AB6A","U+AB6B","ꯥ","ꯨ","꯭","U+FB1E","﮲","﮳","﮴","﮵","﮶",
                  "﮷","﮸","﮹","﮺","﮻","﮼","﮽","﮾","﮿","﯀","﯁","﯂","U+FE00","U+FE01","U+FE02",
                  "U+FE03","U+FE04","U+FE05","U+FE06","U+FE07","U+FE08","U+FE09","U+FE0A",
                  "U+FE0B","U+FE0C","U+FE0D","U+FE0E","U+FE0F","U+FE13","U+FE20","U+FE21",
                  "U+FE22","U+FE23","U+FE24","U+FE25","U+FE26","U+FE27","U+FE28","U+FE29",
                  "U+FE2A","U+FE2B","U+FE2C","U+FE2D","U+FE2E","U+FE2F","U+FE52","U+FE55","﻿",
                  "U+FF07","U+FF0E","U+FF1A","U+FF3E","U+FF40","U+FF70","ﾞ","ﾟ","￣","￹","￺","￻",
                  "U+101FD","U+102E0","U+10376","U+10377","U+10378","U+10379","U+1037A",
                  "U+10780","U+10781","U+10782","U+10783","U+10784","U+10785","U+10787",
                  "U+10788","U+10789","U+1078A","U+1078B","U+1078C","U+1078D","U+1078E",
                  "U+1078F","U+10790","U+10791","U+10792","U+10793","U+10794","U+10795",
                  "U+10796","U+10797","U+10798","U+10799","U+1079A","U+1079B","U+1079C",
                  "U+1079D","U+1079E","U+1079F","U+107A0","U+107A1","U+107A2","U+107A3",
                  "U+107A4","U+107A5","U+107A6","U+107A7","U+107A8","U+107A9","U+107AA",
                  "U+107AB","U+107AC","U+107AD","U+107AE","U+107AF","U+107B0","U+107B2",
                  "U+107B3","U+107B4","U+107B5","U+107B6","U+107B7","U+107B8","U+107B9",
                  "U+107BA","U+10A01","U+10A02","U+10A03","U+10A05","U+10A06","U+10A0C",
                  "U+10A0D","U+10A0E","U+10A0F","U+10A38","U+10A39","U+10A3A","U+10A3F",
                  "U+10AE5","U+10AE6","U+10D24","U+10D25","U+10D26","U+10D27","U+10EAB",
                  "U+10EAC","U+10F46","U+10F47","U+10F48","U+10F49","U+10F4A","U+10F4B",
                  "U+10F4C","U+10F4D","U+10F4E","U+10F4F","U+10F50","U+10F82","U+10F83",
                  "U+10F84","U+10F85","U+11001","U+11038","U+11039","U+1103A","U+1103B",
                  "U+1103C","U+1103D","U+1103E","U+1103F","U+11040","U+11041","U+11042",
                  "U+11043","U+11044","U+11045","U+11046","U+11070","U+11073","U+11074",
                  "U+1107F","U+11080","U+11081","U+110B3","U+110B4","U+110B5","U+110B6",
                  "U+110B9","U+110BA","U+110BD","U+110C2","U+110CD","U+11100","U+11101",
                  "U+11102","U+11127","U+11128","U+11129","U+1112A","U+1112B","U+1112D",
                  "U+1112E","U+1112F","U+11130","U+11131","U+11132","U+11133","U+11134",
                  "U+11173","U+11180","U+11181","U+111B6","U+111B7","U+111B8","U+111B9",
                  "U+111BA","U+111BB","U+111BC","U+111BD","U+111BE","U+111C9","U+111CA",
                  "U+111CB","U+111CC","U+111CF","U+1122F","U+11230","U+11231","U+11234",
                  "U+11236","U+11237","U+1123E","U+112DF","U+112E3","U+112E4","U+112E5",
                  "U+112E6","U+112E7","U+112E8","U+112E9","U+112EA","U+11300","U+11301",
                  "U+1133B","U+1133C","U+11340","U+11366","U+11367","U+11368","U+11369",
                  "U+1136A","U+1136B","U+1136C","U+11370","U+11371","U+11372","U+11373",
                  "U+11374","U+11438","U+11439","U+1143A","U+1143B","U+1143C","U+1143D",
                  "U+1143E","U+1143F","U+11442","U+11443","U+11444","U+11446","U+1145E",
                  "U+114B3","U+114B4","U+114B5","U+114B6","U+114B7","U+114B8","U+114BA",
                  "U+114BF","U+114C0","U+114C2","U+114C3","U+115B2","U+115B3","U+115B4",
                  "U+115B5","U+115BC","U+115BD","U+115BF","U+115C0","U+115DC","U+115DD",
                  "U+11633","U+11634","U+11635","U+11636","U+11637","U+11638","U+11639",
                  "U+1163A","U+1163D","U+1163F","U+11640","U+116AB","U+116AD","U+116B0",
                  "U+116B1","U+116B2","U+116B3","U+116B4","U+116B5","U+116B7","U+1171D",
                  "U+1171E","U+1171F","U+11722","U+11723","U+11724","U+11725","U+11727",
                  "U+11728","U+11729","U+1172A","U+1172B","U+1182F","U+11830","U+11831",
                  "U+11832","U+11833","U+11834","U+11835","U+11836","U+11837","U+11839",
                  "U+1183A","U+1193B","U+1193C","U+1193E","U+11943","U+119D4","U+119D5",
                  "U+119D6","U+119D7","U+119DA","U+119DB","U+119E0","U+11A01","U+11A02",
                  "U+11A03","U+11A04","U+11A05","U+11A06","U+11A07","U+11A08","U+11A09",
                  "U+11A0A","U+11A33","U+11A34","U+11A35","U+11A36","U+11A37","U+11A38",
                  "U+11A3B","U+11A3C","U+11A3D","U+11A3E","U+11A47","U+11A51","U+11A52",
                  "U+11A53","U+11A54","U+11A55","U+11A56","U+11A59","U+11A5A","U+11A5B",
                  "U+11A8A","U+11A8B","U+11A8C","U+11A8D","U+11A8E","U+11A8F","U+11A90",
                  "U+11A91","U+11A92","U+11A93","U+11A94","U+11A95","U+11A96","U+11A98",
                  "U+11A99","U+11C30","U+11C31","U+11C32","U+11C33","U+11C34","U+11C35",
                  "U+11C36","U+11C38","U+11C39","U+11C3A","U+11C3B","U+11C3C","U+11C3D",
                  "U+11C3F","U+11C92","U+11C93","U+11C94","U+11C95","U+11C96","U+11C97",
                  "U+11C98","U+11C99","U+11C9A","U+11C9B","U+11C9C","U+11C9D","U+11C9E",
                  "U+11C9F","U+11CA0","U+11CA1","U+11CA2","U+11CA3","U+11CA4","U+11CA5",
                  "U+11CA6","U+11CA7","U+11CAA","U+11CAB","U+11CAC","U+11CAD","U+11CAE",
                  "U+11CAF","U+11CB0","U+11CB2","U+11CB3","U+11CB5","U+11CB6","U+11D31",
                  "U+11D32","U+11D33","U+11D34","U+11D35","U+11D36","U+11D3A","U+11D3C",
                  "U+11D3D","U+11D3F","U+11D40","U+11D41","U+11D42","U+11D43","U+11D44",
                  "U+11D45","U+11D47","U+11D90","U+11D91","U+11D95","U+11D97","U+11EF3",
                  "U+11EF4","U+13430","U+13431","U+13432","U+13433","U+13434","U+13435",
                  "U+13436","U+13437","U+13438","U+16AF0","U+16AF1","U+16AF2","U+16AF3",
                  "U+16AF4","U+16B30","U+16B31","U+16B32","U+16B33","U+16B34","U+16B35",
                  "U+16B36","U+16B40","U+16B41","U+16B42","U+16B43","U+16F4F","U+16F8F",
                  "U+16F90","U+16F91","U+16F92","U+16F93","U+16F94","U+16F95","U+16F96",
                  "U+16F97","U+16F98","U+16F99","U+16F9A","U+16F9B","U+16F9C","U+16F9D",
                  "U+16F9E","U+16F9F","U+16FE0","U+16FE1","U+16FE3","U+16FE4","U+1AFF0",
                  "U+1AFF1","U+1AFF2","U+1AFF3","U+1AFF5","U+1AFF6","U+1AFF7","U+1AFF8",
                  "U+1AFF9","U+1AFFA","U+1AFFB","U+1AFFD","U+1AFFE","U+1BC9D","U+1BC9E",
                  "U+1BCA0","U+1BCA1","U+1BCA2","U+1BCA3","U+1CF00","U+1CF01","U+1CF02",
                  "U+1CF03","U+1CF04","U+1CF05","U+1CF06","U+1CF07","U+1CF08","U+1CF09",
                  "U+1CF0A","U+1CF0B","U+1CF0C","U+1CF0D","U+1CF0E","U+1CF0F","U+1CF10",
                  "U+1CF11","U+1CF12","U+1CF13","U+1CF14","U+1CF15","U+1CF16","U+1CF17",
                  "U+1CF18","U+1CF19","U+1CF1A","U+1CF1B","U+1CF1C","U+1CF1D","U+1CF1E",
                  "U+1CF1F","U+1CF20","U+1CF21","U+1CF22","U+1CF23","U+1CF24","U+1CF25",
                  "U+1CF26","U+1CF27","U+1CF28","U+1CF29","U+1CF2A","U+1CF2B","U+1CF2C",
                  "U+1CF2D","U+1CF30","U+1CF31","U+1CF32","U+1CF33","U+1CF34","U+1CF35",
                  "U+1CF36","U+1CF37","U+1CF38","U+1CF39","U+1CF3A","U+1CF3B","U+1CF3C",
                  "U+1CF3D","U+1CF3E","U+1CF3F","U+1CF40","U+1CF41","U+1CF42","U+1CF43",
                  "U+1CF44","U+1CF45","U+1CF46","U+1D167","U+1D168","U+1D169","U+1D173",
                  "U+1D174","U+1D175","U+1D176","U+1D177","U+1D178","U+1D179","U+1D17A",
                  "U+1D17B","U+1D17C","U+1D17D","U+1D17E","U+1D17F","U+1D180","U+1D181",
                  "U+1D182","U+1D185","U+1D186","U+1D187","U+1D188","U+1D189","U+1D18A",
                  "U+1D18B","U+1D1AA","U+1D1AB","U+1D1AC","U+1D1AD","U+1D242","U+1D243",
                  "U+1D244","U+1DA00","U+1DA01","U+1DA02","U+1DA03","U+1DA04","U+1DA05",
                  "U+1DA06","U+1DA07","U+1DA08","U+1DA09","U+1DA0A","U+1DA0B","U+1DA0C",
                  "U+1DA0D","U+1DA0E","U+1DA0F","U+1DA10","U+1DA11","U+1DA12","U+1DA13",
                  "U+1DA14","U+1DA15","U+1DA16","U+1DA17","U+1DA18","U+1DA19","U+1DA1A",
                  "U+1DA1B","U+1DA1C","U+1DA1D","U+1DA1E","U+1DA1F","U+1DA20","U+1DA21",
                  "U+1DA22","U+1DA23","U+1DA24","U+1DA25","U+1DA26","U+1DA27","U+1DA28",
                  "U+1DA29","U+1DA2A","U+1DA2B","U+1DA2C","U+1DA2D","U+1DA2E","U+1DA2F",
                  "U+1DA30","U+1DA31","U+1DA32","U+1DA33","U+1DA34","U+1DA35","U+1DA36",
                  "U+1DA3B","U+1DA3C","U+1DA3D","U+1DA3E","U+1DA3F","U+1DA40","U+1DA41",
                  "U+1DA42","U+1DA43","U+1DA44","U+1DA45","U+1DA46","U+1DA47","U+1DA48",
                  "U+1DA49","U+1DA4A","U+1DA4B","U+1DA4C","U+1DA4D","U+1DA4E","U+1DA4F",
                  "U+1DA50","U+1DA51","U+1DA52","U+1DA53","U+1DA54","U+1DA55","U+1DA56",
                  "U+1DA57","U+1DA58","U+1DA59","U+1DA5A","U+1DA5B","U+1DA5C","U+1DA5D",
                  "U+1DA5E","U+1DA5F","U+1DA60","U+1DA61","U+1DA62","U+1DA63","U+1DA64",
                  "U+1DA65","U+1DA66","U+1DA67","U+1DA68","U+1DA69","U+1DA6A","U+1DA6B",
                  "U+1DA6C","U+1DA75","U+1DA84","U+1DA9B","U+1DA9C","U+1DA9D","U+1DA9E",
                  "U+1DA9F","U+1DAA1","U+1DAA2","U+1DAA3","U+1DAA4","U+1DAA5","U+1DAA6",
                  "U+1DAA7","U+1DAA8","U+1DAA9","U+1DAAA","U+1DAAB","U+1DAAC","U+1DAAD",
                  "U+1DAAE","U+1DAAF","U+1E000","U+1E001","U+1E002","U+1E003","U+1E004",
                  "U+1E005","U+1E006","U+1E008","U+1E009","U+1E00A","U+1E00B","U+1E00C",
                  "U+1E00D","U+1E00E","U+1E00F","U+1E010","U+1E011","U+1E012","U+1E013",
                  "U+1E014","U+1E015","U+1E016","U+1E017","U+1E018","U+1E01B","U+1E01C",
                  "U+1E01D","U+1E01E","U+1E01F","U+1E020","U+1E021","U+1E023","U+1E024",
                  "U+1E026","U+1E027","U+1E028","U+1E029","U+1E02A","U+1E130","U+1E131",
                  "U+1E132","U+1E133","U+1E134","U+1E135","U+1E136","U+1E137","U+1E138",
                  "U+1E139","U+1E13A","U+1E13B","U+1E13C","U+1E13D","U+1E2AE","U+1E2EC",
                  "U+1E2ED","U+1E2EE","U+1E2EF","U+1E8D0","U+1E8D1","U+1E8D2","U+1E8D3",
                  "U+1E8D4","U+1E8D5","U+1E8D6","U+1E944","U+1E945","U+1E946","U+1E947",
                  "U+1E948","U+1E949","U+1E94A","U+1E94B","U+1F3FB","U+1F3FC","U+1F3FD",
                  "U+1F3FE","U+1F3FF","U+E0001","U+E0020","U+E0021","U+E0022","U+E0023",
                  "U+E0024","U+E0025","U+E0026","U+E0027","U+E0028","U+E0029","U+E002A",
                  "U+E002B","U+E002C","U+E002D","U+E002E","U+E002F","U+E0030","U+E0031",
                  "U+E0032","U+E0033","U+E0034","U+E0035","U+E0036","U+E0037","U+E0038",
                  "U+E0039","U+E003A","U+E003B","U+E003C","U+E003D","U+E003E","U+E003F",
                  "U+E0040","U+E0041","U+E0042","U+E0043","U+E0044","U+E0045","U+E0046",
                  "U+E0047","U+E0048","U+E0049","U+E004A","U+E004B","U+E004C","U+E004D",
                  "U+E004E","U+E004F","U+E0050","U+E0051","U+E0052","U+E0053","U+E0054",
                  "U+E0055","U+E0056","U+E0057","U+E0058","U+E0059","U+E005A","U+E005B",
                  "U+E005C","U+E005D","U+E005E","U+E005F","U+E0060","U+E0061","U+E0062",
                  "U+E0063","U+E0064","U+E0065","U+E0066","U+E0067","U+E0068","U+E0069",
                  "U+E006A","U+E006B","U+E006C","U+E006D","U+E006E","U+E006F","U+E0070",
                  "U+E0071","U+E0072","U+E0073","U+E0074","U+E0075","U+E0076","U+E0077",
                  "U+E0078","U+E0079","U+E007A","U+E007B","U+E007C","U+E007D","U+E007E",
                  "U+E007F","U+E0100","U+E0101","U+E0102","U+E0103","U+E0104","U+E0105",
                  "U+E0106","U+E0107","U+E0108","U+E0109","U+E010A","U+E010B","U+E010C",
                  "U+E010D","U+E010E","U+E010F","U+E0110","U+E0111","U+E0112","U+E0113",
                  "U+E0114","U+E0115","U+E0116","U+E0117","U+E0118","U+E0119","U+E011A",
                  "U+E011B","U+E011C","U+E011D","U+E011E","U+E011F","U+E0120","U+E0121",
                  "U+E0122","U+E0123","U+E0124","U+E0125","U+E0126","U+E0127","U+E0128",
                  "U+E0129","U+E012A","U+E012B","U+E012C","U+E012D","U+E012E","U+E012F",
                  "U+E0130","U+E0131","U+E0132","U+E0133","U+E0134","U+E0135","U+E0136",
                  "U+E0137","U+E0138","U+E0139","U+E013A","U+E013B","U+E013C","U+E013D",
                  "U+E013E","U+E013F","U+E0140","U+E0141","U+E0142","U+E0143","U+E0144",
                  "U+E0145","U+E0146","U+E0147","U+E0148","U+E0149","U+E014A","U+E014B",
                  "U+E014C","U+E014D","U+E014E","U+E014F","U+E0150","U+E0151","U+E0152",
                  "U+E0153","U+E0154","U+E0155","U+E0156","U+E0157","U+E0158","U+E0159",
                  "U+E015A","U+E015B","U+E015C","U+E015D","U+E015E","U+E015F","U+E0160",
                  "U+E0161","U+E0162","U+E0163","U+E0164","U+E0165","U+E0166","U+E0167",
                  "U+E0168","U+E0169","U+E016A","U+E016B","U+E016C","U+E016D","U+E016E",
                  "U+E016F","U+E0170","U+E0171","U+E0172","U+E0173","U+E0174","U+E0175",
                  "U+E0176","U+E0177","U+E0178","U+E0179","U+E017A","U+E017B","U+E017C",
                  "U+E017D","U+E017E","U+E017F","U+E0180","U+E0181","U+E0182","U+E0183",
                  "U+E0184","U+E0185","U+E0186","U+E0187","U+E0188","U+E0189","U+E018A",
                  "U+E018B","U+E018C","U+E018D","U+E018E","U+E018F","U+E0190","U+E0191",
                  "U+E0192","U+E0193","U+E0194","U+E0195","U+E0196","U+E0197","U+E0198",
                  "U+E0199","U+E019A","U+E019B","U+E019C","U+E019D","U+E019E","U+E019F",
                  "U+E01A0","U+E01A1","U+E01A2","U+E01A3","U+E01A4","U+E01A5","U+E01A6",
                  "U+E01A7","U+E01A8","U+E01A9","U+E01AA","U+E01AB","U+E01AC","U+E01AD",
                  "U+E01AE","U+E01AF","U+E01B0","U+E01B1","U+E01B2","U+E01B3","U+E01B4",
                  "U+E01B5","U+E01B6","U+E01B7","U+E01B8","U+E01B9","U+E01BA","U+E01BB",
                  "U+E01BC","U+E01BD","U+E01BE","U+E01BF","U+E01C0","U+E01C1","U+E01C2",
                  "U+E01C3","U+E01C4","U+E01C5","U+E01C6","U+E01C7","U+E01C8","U+E01C9",
                  "U+E01CA","U+E01CB","U+E01CC","U+E01CD","U+E01CE","U+E01CF","U+E01D0",
                  "U+E01D1","U+E01D2","U+E01D3","U+E01D4","U+E01D5","U+E01D6","U+E01D7",
                  "U+E01D8","U+E01D9","U+E01DA","U+E01DB","U+E01DC","U+E01DD","U+E01DE",
                  "U+E01DF","U+E01E0","U+E01E1","U+E01E2","U+E01E3","U+E01E4","U+E01E5",
                  "U+E01E6","U+E01E7","U+E01E8","U+E01E9","U+E01EA","U+E01EB","U+E01EC",
                  "U+E01ED","U+E01EE","U+E01EF"}

RECURSIVE Flatten(_)
Flatten(ss) == IF ss = <<>> THEN <<>> ELSE Head(ss) \o Flatten(Tail(ss))

\* s.lower(): every character in lower case; a capital sigma becomes the
\* final sigma when a cased letter comes before it and none after it,
\* case-ignorable characters between them not counted; the capital I with a
\* dot above becomes i and the combining dot above
Lower(s) ==
    LET Cased(c) == /\ c \notin CaseIgnorable
                    /\ \/ c \in CasedOther
                       \/ c = "U+0130"
                       \/ \E i \in 1..Len(Upper) : Upper[i] = c \/ Lowercase[i] = c
        Before(i) == \E j \in 1..(i - 1) :
                        Cased(s[j]) /\ \A k \in (j + 1)..(i - 1) : s[k] \in CaseIgnorable
        After(i)  == \E j \in (i + 1)..Len(s) :
                        Cased(s[j]) /\ \A k \in (i + 1)..(j - 1) : s[k] \in CaseIgnorable
    IN  Flatten([i \in 1..Len(s) |->
                    IF s[i] = "Σ" /\ Before(i) /\ ~After(i) THEN <<"ς">>
                    ELSE IF s[i] = "U+0130" THEN <<"i", "U+0307">>
                    ELSE <<LowerChar(s[i])>>])

\* x in lst, for a list
InList(x, lst) == \E i \in 1..Len(lst) : lst[i] = x

\* lst.remove(x): the list without the first occurrence of x (x must occur)
ListRemove(lst, x) ==
    LET k == CHOOSE i \in 1..Len(lst) : lst[i] = x /\ \A j \in 1..(i - 1) : lst[j] # x
    IN  SubSeq(lst, 1, k - 1) \o SubSeq(lst, k + 1, Len(lst))

\* d[k] = v on a dict modelled as a function
DictSet(d, k, v) == (k :> v) @@ d

\* del d[k]
DictDel(d, k) == [x \in (DOMAIN d) \ {k} |-> d[x]]

(***************************************************************************)
(* String literals of the program                                          *)
(***************************************************************************)
str_smallint == <<"s","m","a","l","l","i","n","t">>
str_integer == <<"i","n","t","e","g","e","r">>
str_bigint == <<"b","i","g","i","n","t">>
str_boolean == <<"b","o","o","l","e","a","n">>
str_real == <<"r","e","a","l">>
str_double_precision == <<"d","o","u","b","l","e"," ","p","r","e","c","i","s","i","o","n">>
str_timestamptz == <<"t","i","m","e","s","t","a","m","p"," ","w","i","t","h"," ","t","i","m","e"," ","z","o","n","e">>
str_timetz == <<"t","i","m","e"," ","w","i","t","h"," ","t","i","m","e"," ","z","o","n","e">>
str_varchar == <<"v","a","r","c","h","a","r">>
str_char == <<"c","h","a","r">>
str_text == <<"t","e","x","t">>
str_citext == <<"c","i","t","e","x","t">>
str_255 == <<"2","5","5">>
str_65535 == <<"6","5","5","3","5">>
str_0 == <<"0">>
str_1 == <<"1">>
str_public_dot == <<"p","u","b","l","i","c",".">>
str_public_dot_u == <<"p","u","b","l","i","c",".","u">>
str_enum_ == <<"e","n","u","m","_">>
str_us == <<"_">>
str_u == <<"u">>
str_ge0 == <<"g","e","0">>
str_VALUE_ge_0 == <<"V","A","L","U","E"," ",">","="," ","0">>
str_range == <<"r","a","n","g","e">>
str_VALUE_ge == <<"V","A","L","U","E"," ",">","="," ">>
str_AND_VALUE_le == <<" ","A","N","D"," ","V","A","L","U","E"," ","<","="," ">>
str_minus == <<"-">>
str_9 == <<"9">>
str_update_ == <<"u","p","d","a","t","e","_">>
str_on_update == <<"_","o","n","_","u","p","d","a","t","e">>
str_t_update_ == <<"_","t","_","u","p","d","a","t","e","_">>
str_parens == <<"(",")">>
str_pk == <<"_","p","k">>
str_idx == <<"_","i","d","x">>
str_us_ge0 == <<"_","g","e","0">>
str_sp_ge_0 == <<" ",">","="," ","0">>
str_len == <<"_","l","e","n">>
str_length_open == <<"l","e","n","g","t","h","(">>
str_close_sp == <<")"," ">>
str_sp == <<" ">>
str_eq == <<"=">>
str_le == <<"<","=">>
str_TRUE == <<"T","R","U","E">>
str_FALSE == <<"F","A","L","S","E">>
str_CURRENT_TIMESTAMP == <<"C","U","R","R","E","N","T","_","T","I","M","E","S","T","A","M","P">>
str_CTS_ON_UPDATE == <<"C","U","R","R","E","N","T","_","T","I","M","E","S","T","A","M","P"," ","O","N"," ","U","P","D","A","T","E"," ","C","U","R","R","E","N","T","_","T","I","M","E","S","T","A","M","P">>
str_quote == <<"'">>
str_lparen == <<"(">>
str_rparen == <<")">>
str_comma == <<",">>
cat_SMALLINT == <<"S","M","A","L","L","I","N","T">>
cat_JSON == <<"J","S","O","N">>
cat_DECIMAL == <<"D","E","C","I","M","A","L">>
cat_VARCHAR == <<"V","A","R","C","H","A","R">>
cat_BIGINT == <<"B","I","G","I","N","T">>
cat_DATE == <<"D","A","T","E">>
cat_CHAR == <<"C","H","A","R">>
cat_INT == <<"I","N","T">>
cat_TINYINT == <<"T","I","N","Y","I","N","T">>
cat_FLOAT == <<"F","L","O","A","T">>
cat_DOUBLE == <<"D","O","U","B","L","E">>
cat_TIMESTAMP == <<"T","I","M","E","S","T","A","M","P">>
cat_DATETIME == <<"D","A","T","E","T","I","M","E">>
cat_TIMESTAMP_F == <<"T","I","M","E","S","T","A","M","P","_","F">>
cat_DATETIME_F == <<"D","A","T","E","T","I","M","E","_","F">>
cat_TIME == <<"T","I","M","E">>
cat_TINYTEXT == <<"T","I","N","Y","T","E","X","T">>
cat_TEXT == <<"T","E","X","T">>
cat_MEDIUMTEXT == <<"M","E","D","I","U","M","T","E","X","T">>
cat_LONGTEXT == <<"L","O","N","G","T","E","X","T">>
cat_ENUM == <<"E","N","U","M">>
cat_BLOB == <<"B","L","O","B">>

NoneStr == <<>>

(***************************************************************************)
(* Bounds of the model                                                     *)
(***************************************************************************)
\* tables in one schema
MaxTables == 2
\* columns in one schema, over all its tables
MaxCols == 3

\* dbo.MAX_NAME_LEN
MAX_NAME_LEN == 63

VARIABLES
    stage,              \* position in the program around createDbm ("call": createDbm was called directly)
    args,               \* the command line: source file, trigger file, merge files, flags
    outFile,            \* the output file as this run has written it
    exitCode,           \* the exit status of the process, once it has ended
    mi,                 \* position in the list of merge files (1-based)
    run, prev,          \* which run on the same input this is, and how the run before ended
    hashSeed,           \* the seed of this process's string hashes, which orders the walk of a set
    given,              \* the schema graph as createDbm received it (createDbm never changes it)
    tables,             \* the schema graph: dbo.Table objects with their columns, indices, fks, triggers
    opts,               \* createDbm's keyword arguments prependTableNameInIdx, nocitext, nofkidx,
                        \* and the layers of its diagram argument
    triggerConfig,      \* the TriggerConfig, or [present |-> FALSE] for None
    pc,                 \* position in createDbm
    err,                \* the exception that ended the run, "" if none
    ti, ci, ii, ri,     \* loop positions: table, column, index, sorted foreign key (1-based)
    enums, domains,     \* createDbm's sets of used enum and domain names
    root,               \* children of the dbmodel root, in order
    tnodes,             \* the table elements, by table position (root refers to them)
    customidxs,         \* customidxs['column'] of the current table: sequence of [index, name]
    colConstraints,     \* colConstraints of the current table
    aiApplied,          \* aiApplied of the current table
    fks,                \* the fk process list: sequence of [t, k]
    indexes,            \* the deferred index elements
    updateTsFunctions,  \* OrderedDict funcName -> function element, as the sequence of its values
    updateTsTriggers,   \* deferred triggers of the ON UPDATE emulation
    triggers            \* deferred triggers of the trigger configuration

driver == <<stage, args, outFile, exitCode, mi, run, prev, hashSeed>>

vars == <<driver, given, tables, opts, triggerConfig, pc, err, ti, ci, ii, ri, enums, domains, root, tnodes,
          customidxs, colConstraints, aiApplied, fks, indexes, updateTsFunctions,
          updateTsTriggers, triggers>>

(***************************************************************************)
(* The schema graph (dbo.py)                                               *)
(***************************************************************************)
TYPE_PRIMARY == "PRIMARY"
TYPE_UNIQUE == "UNIQUE"
TYPE_INDEX == "INDEX"

\* ForeignKey.__init__: the foreign key (position in the table's list) that
\* lists column c, 0 (None) if no foreign key lists it.  The constructor
\* asserts that at most one does.
ColumnFk(rawfks, c) ==
    IF \E k \in 1..Len(rawfks) : InList(c, rawfks[k].columns)
    THEN CHOOSE k \in 1..Len(rawfks) : InList(c, rawfks[k].columns)
    ELSE 0

\* ForeignKey.__init__: primary is set when an owned column is a member of a PRIMARY index
FkPrimary(indices, fkcols) ==
    \E n \in 1..Len(fkcols) : \E i \in 1..Len(indices) :
        /\ indices[i].indexType = TYPE_PRIMARY
        /\ \E m \in 1..Len(indices[i].columns) : indices[i].columns[m].col = fkcols[n]

\* a figure at the diagram's origin that names no layer; found is FALSE where
\* the diagram has no figure for the table
OriginFigure == [found |-> TRUE, left |-> 0, top |-> 0, layer |-> 0]

\* Table.__init__: columns, then indices, then foreign keys (with the back
\* references col.fk and the derived fk.primary), then triggers.  The figure
\* that the diagram has for the table (Diagram.getTableFigure finds it by the
\* table's id) is kept with the table.
TableInit(id, name, nextAutoInc, rawcols, indices, rawfks, trigs) ==
    [ id |-> id, name |-> name, nextAutoInc |-> nextAutoInc,
      figure   |-> OriginFigure,
      columns  |-> [c \in 1..Len(rawcols) |-> [rawcols[c] EXCEPT !.fk = ColumnFk(rawfks, c)]],
      indices  |-> indices,
      fks      |-> [k \in 1..Len(rawfks) |->
                       [rawfks[k] EXCEPT !.primary = FkPrimary(indices, rawfks[k].columns)]],
      triggers |-> trigs ]

\* the first column with this identifier, 0 if there is none (the for-else loops)
FindColumn(cols, id) ==
    IF \E c \in 1..Len(cols) : cols[c].id = id
    THEN CHOOSE c \in 1..Len(cols) : cols[c].id = id /\ \A d \in 1..(c - 1) : cols[d].id # id
    ELSE 0

\* IndexColumn.__init__ for the listed identifiers from place n on: index i
\* joins the indices of each referenced column
RECURSIVE IndexColumns(_, _, _, _)
IndexColumns(st, ids, n, i) ==
    IF n > Len(ids) THEN st
    ELSE LET c == FindColumn(st.cols, ids[n])
         IN  IF c = 0 THEN [st EXCEPT !.err = "RuntimeError"]
             ELSE IndexColumns([st EXCEPT !.cols[c].indices = Append(@, i),
                                          !.members = Append(@, c)], ids, n + 1, i)

\* mutant: the back reference is not tested
FkFree_Always(col) == TRUE

\* dbo.py line 221: the column belongs to no foreign key yet
FkFree(col) == col.fk = 0

\* dbo.py lines 228-230: the column is a member of an index of type PRIMARY
InPrimary(col, indices) ==
    \E m \in 1..Len(col.indices) : indices[col.indices[m]].indexType = TYPE_PRIMARY

\* ForeignKey.__init__ for the listed identifiers from place n on: foreign
\* key k takes each column that is free and becomes primary with a member of
\* a PRIMARY index
RECURSIVE FkColumns(_, _, _, _, _)
FkColumns(st, indices, ids, n, k) ==
    IF n > Len(ids) THEN st
    ELSE LET c == FindColumn(st.cols, ids[n])
         IN  IF c = 0 THEN [st EXCEPT !.err = "RuntimeError"]
             ELSE IF ~FkFree(st.cols[c]) THEN [st EXCEPT !.err = "AssertionError"]
             ELSE FkColumns([st EXCEPT !.cols[c].fk = k,
                                       !.owned = Append(@, c),
                                       !.primary = @ \/ InPrimary(st.cols[c], indices)],
                            indices, ids, n + 1, k)

\* F of the value of x: x is evaluated once, however often F reads it
With(x, F(_)) == CHOOSE y \in { F(v) : v \in {x} } : TRUE

\* Index.TYPES
TYPES == {TYPE_PRIMARY, TYPE_UNIQUE, TYPE_INDEX}

\* Index.__init__, dbo.py lines 197-201: what its asserts raise, "" if nothing
CheckIndex(index) ==
    IF index.indexType \notin TYPES THEN "AssertionError"
    ELSE IF ~(\/ index.isPrimary = 1 /\ index.indexType = TYPE_PRIMARY
              \/ index.isPrimary = 0 /\ index.indexType # TYPE_PRIMARY) THEN "AssertionError"
    ELSE IF index.columns = <<>> THEN "AssertionError"
    ELSE ""

\* Table.__init__, dbo.py lines 257-259: the indices from place i on; the
\* members of an index name the table's columns by their place
RECURSIVE TableIndices(_, _, _)
TableIndices(st, indices, i) ==
    IF i > Len(indices) \/ st.err # "" THEN st
    ELSE IF CheckIndex(indices[i]) # "" THEN [st EXCEPT !.err = CheckIndex(indices[i])]
    ELSE With(IndexColumns([err |-> "", cols |-> st.cols, members |-> <<>>],
                           [m \in 1..Len(indices[i].columns) |-> indices[i].columns[m].col],
                           1, i),
              LAMBDA r :
                With([st EXCEPT
                        !.err = r.err, !.cols = r.cols,
                        !.indices = IF r.err # "" THEN @
                                    ELSE Append(@, [indices[i] EXCEPT !.columns =
                                            [m \in 1..Len(r.members) |->
                                                [indices[i].columns[m] EXCEPT !.col = r.members[m]]]])],
                     LAMBDA next : TableIndices(next, indices, i + 1)))

\* Table.__init__, dbo.py lines 263-265: the foreign keys from place k on
RECURSIVE TableFks(_, _, _, _)
TableFks(st, indices, rawfks, k) ==
    IF k > Len(rawfks) \/ st.err # "" THEN st
    ELSE With(FkColumns([err |-> "", cols |-> st.cols, owned |-> <<>>, primary |-> FALSE],
                        indices, rawfks[k].columns, 1, k),
              LAMBDA r :
                With([st EXCEPT
                        !.err = r.err, !.cols = r.cols,
                        !.fks = IF r.err # "" THEN @
                                ELSE Append(@, [rawfks[k] EXCEPT !.columns = r.owned,
                                                                 !.primary = r.primary])],
                     LAMBDA next : TableFks(next, indices, rawfks, k + 1)))

\* DataType.__init__ under SimpleType.__init__ and UserType.__init__, dbo.py
\* lines 104-135, on a type element of the catalog.  The element is described
\* by its tag, its id (the text of a simple type's link, the id attribute of
\* a user type), whether a user type has its actualType link, the type name
\* that TYPE_RE finds in the native type (NoneStr when it does not match) and
\* the name attribute of a user type.
NewType(el, user) ==
    [ err  |-> IF el.tag # (IF user THEN "value" ELSE "link") THEN "AssertionError"
               ELSE IF user /\ ~el.actualType THEN "AssertionError"
               ELSE IF el.type = NoneStr THEN "AssertionError"
               ELSE "",
      type |-> [id |-> el.id, type |-> el.type, isUserType |-> user, name |-> el.name] ]

\* mwb2dbm.py lines 825-833: the dictionary of the types, as the sequence of
\* its values, from place n of the elements on; no two types share an id
RECURSIVE Types(_, _, _, _)
Types(st, els, user, n) ==
    IF n > Len(els) \/ st.err # "" THEN st
    ELSE LET t == NewType(els[n], user)
         IN  IF t.err # "" THEN [st EXCEPT !.err = t.err]
             ELSE IF \E k \in 1..Len(st.types) : st.types[k].id = t.type.id
             THEN [st EXCEPT !.err = "AssertionError"]
             ELSE With([st EXCEPT !.types = Append(@, t.type)],
                       LAMBDA next : Types(next, els, user, n + 1))

\* Column.__init__, dbo.py lines 152-158: a column element links to a user
\* type or to a simple type, never to both, and the type is one of the types
ColumnTypeError(el, types) ==
    IF el.userType = NoneStr /\ el.simpleType = NoneStr THEN "AssertionError"
    ELSE IF el.userType # NoneStr /\ el.simpleType # NoneStr THEN "AssertionError"
    ELSE IF \A k \in 1..Len(types) :
                types[k].id # (IF el.userType # NoneStr THEN el.userType ELSE el.simpleType)
    THEN "KeyError"
    ELSE ""

\* Column.__init__, dbo.py lines 142-164: the column of a column element
\* whose type is among the types
NewColumn(el, types) ==
    LET typeId == IF el.userType # NoneStr THEN el.userType ELSE el.simpleType
        type == types[CHOOSE k \in 1..Len(types) : types[k].id = typeId]
    IN  [ name |-> el.name, category |-> type.type, isUserType |-> type.isUserType,
          userTypeName |-> type.name, autoIncrement |-> el.autoIncrement,
          defaultValue |-> el.defaultValue, defaultValueIsNull |-> el.defaultValueIsNull,
          flags |-> el.flags, isNotNull |-> el.isNotNull, length |-> el.length,
          precision |-> el.precision, scale |-> el.scale,
          datatypeExplicitParams |-> el.datatypeExplicitParams,
          hasComment |-> el.hasComment, comment |-> el.comment, fk |-> 0 ]

\* Table.__init__, dbo.py lines 244-270, on the table element src of a
\* source file, whose columns are identified by their places: the Table
\* object, or what the constructors raise.  The columns are made first,
\* then the indices, then the foreign keys.
BuildTable(src, types) ==
    LET n == Len(src.columns)
        bad == { c \in 1..n : ColumnTypeError(src.columns[c], types) # "" }
        cols0 == [c \in 1..n |-> [id |-> c, fk |-> 0, indices |-> <<>>]]
        Failed(e) == [err |-> e, table |-> src]
    IN  IF n = 0 THEN Failed("AssertionError")
        ELSE IF bad # {}
        THEN Failed(ColumnTypeError(src.columns[CHOOSE c \in bad : \A d \in bad : c <= d], types))
        ELSE IF src.indices = <<>> THEN Failed("AssertionError")
        ELSE With(TableIndices([err |-> "", cols |-> cols0, indices |-> <<>>], src.indices, 1),
                  LAMBDA ix :
                    IF ix.err # "" THEN Failed(ix.err)
                    ELSE With(TableFks([err |-> "", cols |-> ix.cols, fks |-> <<>>],
                                       ix.indices, src.fks, 1),
                              LAMBDA fk :
                                IF fk.err # "" THEN Failed(fk.err)
                                ELSE [ err |-> "",
                                       table |-> [src EXCEPT
                                           !.columns = [c \in 1..n |->
                                               [NewColumn(src.columns[c], types)
                                                   EXCEPT !.fk = fk.cols[c].fk]],
                                           !.indices = ix.indices,
                                           !.fks = fk.fks] ]))

\* mwb2dbm.py lines 838-840: the Table objects of the table elements from
\* place n on, as long as no constructor raises
RECURSIVE BuildTables(_, _, _, _)
BuildTables(st, els, types, n) ==
    IF n > Len(els) \/ st.err # "" THEN st
    ELSE With(BuildTable(els[n], types),
              LAMBDA t :
                With([err |-> t.err,
                      tables |-> IF t.err # "" THEN st.tables ELSE Append(st.tables, t.table)],
                     LAMBDA next : BuildTables(next, els, types, n + 1)))

(***************************************************************************)
(* Input schemas.  A schema is described by the sequence of its columns    *)
(* and the places where one table ends and the next begins; what a column  *)
(* brings to its table besides itself (membership of the primary key, an   *)
(* index of its own, membership of the index that columns of the table     *)
(* share, a foreign key, a trigger) is part of its description.            *)
(***************************************************************************)
str_t == <<"t">>
str_c == <<"c">>
str_fk_ == <<"f","k","_">>
str_PRIMARY == <<"P","R","I","M","A","R","Y">>
str_enum_params == <<"(","'","a","'",","," ","'","b","'",")">>
str_shared_idx == <<"s","h","a","r","e","d","_","i","d","x">>

\* a signed INT column with nothing set; the families below vary it
PlainCol ==
    [ name |-> NoneStr, category |-> cat_INT, isUserType |-> FALSE, userTypeName |-> "",
      autoIncrement |-> 0, defaultValue |-> NoneStr, defaultValueIsNull |-> 0,
      flags |-> <<>>, isNotNull |-> 0, length |-> -1, precision |-> -1, scale |-> -1,
      datatypeExplicitParams |-> NoneStr, hasComment |-> FALSE, comment |-> NoneStr,
      fkKind |-> "none", inPk |-> FALSE, idxType |-> "", idxName |-> NoneStr, descend |-> 0,
      sharedIdx |-> "", trigEvent |-> "", trigName |-> NoneStr ]

TableName(id) == str_t \o NatToStr(id)

ColName(v, c) == IF v.name = NoneStr THEN str_c \o NatToStr(c) ELSE v.name

Positions(vs, P(_)) == SelectSeq([i \in 1..Len(vs) |-> i], LAMBDA i : P(vs[i]))

MkColumn(v, c) ==
    [ name |-> ColName(v, c), category |-> v.category, isUserType |-> v.isUserType,
      userTypeName |-> v.userTypeName, autoIncrement |-> v.autoIncrement,
      defaultValue |-> v.defaultValue, defaultValueIsNull |-> v.defaultValueIsNull,
      flags |-> v.flags, isNotNull |-> v.isNotNull, length |-> v.length,
      precision |-> v.precision, scale |-> v.scale,
      datatypeExplicitParams |-> v.datatypeExplicitParams,
      hasComment |-> v.hasComment, comment |-> v.comment, fk |-> 0 ]

MkIndex(name, type, cols, vs) ==
    [ name |-> name, indexType |-> type, isPrimary |-> IF type = TYPE_PRIMARY THEN 1 ELSE 0,
      unique |-> IF type = TYPE_INDEX THEN 0 ELSE 1,
      columns |-> [m \in 1..Len(cols) |-> [col |-> cols[m], descend |-> vs[cols[m]].descend]] ]

MkFk(name, kind, cols) ==
    [ name |-> name, hasReferencedTable |-> kind \notin {"noref", "noref_one", "noref_multi"},
      referencedTable |-> IF kind = "dangling" THEN 0 ELSE 1,
      many |-> IF kind \in {"one", "noref_one"} THEN 0 ELSE 1,
      mandatory |-> IF kind = "optional" THEN 0 ELSE 1,
      updateRule |-> "NO ACTION", deleteRule |-> "NO ACTION",
      columns |-> cols, primary |-> FALSE ]

IsPk(v) == v.inPk
HasIdx(v) == v.idxType # ""
HasSingleFk(v) == v.fkKind \notin {"none", "multi", "noref_multi"}
HasMultiFk(v) == v.fkKind \in {"multi", "noref_multi"}
HasTrig(v) == v.trigEvent # ""
HasSharedIdx(v) == v.sharedIdx # ""

MkTable(id, vs) ==
    LET pk    == Positions(vs, IsPk)
        ix    == Positions(vs, HasIdx)
        sfk   == Positions(vs, HasSingleFk)
        mfk   == Positions(vs, HasMultiFk)
        tr    == Positions(vs, HasTrig)
        sh    == Positions(vs, HasSharedIdx)
        indices == (IF pk = <<>> THEN <<>> ELSE <<MkIndex(str_PRIMARY, TYPE_PRIMARY, pk, vs)>>)
                   \o [n \in 1..Len(ix) |->
                          MkIndex(vs[ix[n]].idxName, vs[ix[n]].idxType, <<ix[n]>>, vs)]
                   \o (IF sh = <<>> THEN <<>>
                       ELSE <<MkIndex(str_shared_idx, vs[sh[1]].sharedIdx, sh, vs)>>)
        rawfks  == [n \in 1..Len(sfk) |->
                          MkFk(str_fk_ \o ColName(vs[sfk[n]], sfk[n]), vs[sfk[n]].fkKind, <<sfk[n]>>)]
                   \o (IF mfk = <<>> THEN <<>>
                       ELSE <<MkFk(str_fk_ \o TableName(id), vs[mfk[1]].fkKind, mfk)>>)
        trigs   == [n \in 1..Len(tr) |->
                          [name |-> vs[tr[n]].trigName, timing |-> "BEFORE",
                           event |-> vs[tr[n]].trigEvent]]
    IN  TableInit(id, TableName(id), NoneStr,
                  [c \in 1..Len(vs) |-> MkColumn(vs[c], c)], indices, rawfks, trigs)

SeqsUpTo(S, n) == UNION {[1..k -> S] : k \in 1..n}

\* the positions where the tables end, ascending
Ends(B, n) ==
    LET S == B \cup {n}
    IN  [j \in 1..Cardinality(S) |-> CHOOSE x \in S : Cardinality({y \in S : y < x}) = j - 1]

MkSchema(cols, B) ==
    LET ends == Ends(B, Len(cols))
    IN  [j \in 1..Len(ends) |->
            MkTable(j, SubSeq(cols, IF j = 1 THEN 1 ELSE ends[j - 1] + 1, ends[j]))]

\* Table.__init__ asserts that a table has at least one index (line 255);
\* nothing in it compares the names of the columns
WellFormed(schema) ==
    \A t \in 1..Len(schema) : schema[t].indices # <<>>

\* the schemas over the column descriptions V, within the bounds
IsSchemaOf(schema, V) ==
    \E cols \in SeqsUpTo(V, MaxCols) :
        \E B \in SUBSET (1..(Len(cols) - 1)) :
            /\ Cardinality(B) < MaxTables
            /\ schema = MkSchema(cols, B)
            /\ WellFormed(MkSchema(cols, B))

\* The source file of a schema: the elements that the constructors of dbo.py
\* read.  A column element links to its type; the id of a simple type is its
\* name, the id of a user type is made of its native type and its name.
TypeId(col) == IF col.isUserType THEN <<"u">> \o col.category \o <<col.userTypeName>> ELSE col.category

ColumnElement(col) ==
    [ name |-> col.name,
      simpleType |-> IF col.isUserType THEN NoneStr ELSE TypeId(col),
      userType |-> IF col.isUserType THEN TypeId(col) ELSE NoneStr,
      autoIncrement |-> col.autoIncrement,
      defaultValue |-> col.defaultValue, defaultValueIsNull |-> col.defaultValueIsNull,
      flags |-> col.flags, isNotNull |-> col.isNotNull, length |-> col.length,
      precision |-> col.precision, scale |-> col.scale,
      datatypeExplicitParams |-> col.datatypeExplicitParams,
      hasComment |-> col.hasComment, comment |-> col.comment ]

TableElement(table) ==
    [table EXCEPT !.columns = [c \in 1..Len(table.columns) |-> ColumnElement(table.columns[c])],
                  !.fks = [k \in 1..Len(table.fks) |-> [table.fks[k] EXCEPT !.primary = FALSE]]]

TypeElement(col) ==
    [ tag |-> IF col.isUserType THEN "value" ELSE "link", id |-> TypeId(col),
      actualType |-> col.isUserType, type |-> col.category, name |-> col.userTypeName ]


\* the elements of a sequence, each at the place where it comes first
RECURSIVE Distinct(_)
Distinct(seq) ==
    IF seq = <<>> THEN <<>>
    ELSE LET front == Distinct(SubSeq(seq, 1, Len(seq) - 1))
             last == seq[Len(seq)]
         IN  IF \E n \in 1..Len(front) : front[n] = last THEN front ELSE Append(front, last)

Present(els) == [present |-> TRUE, elements |-> els]
Absent == [present |-> FALSE, elements |-> <<>>]

DiagramElement ==
    [ structName |-> "workbench.physical.Diagram", connections |-> TRUE, figures |-> TRUE,
      layers |-> TRUE, name |-> TRUE ]

\* the physical model of a source file with the tables of the schema, the
\* types of their columns and one diagram
SourceModel(schema) ==
    LET cols == Flatten([t \in 1..Len(schema) |-> schema[t].columns])
        types == Distinct([c \in 1..Len(cols) |-> TypeElement(cols[c])])
    IN  [ catalog |-> TRUE, schema |-> TRUE, schemaName |-> TRUE,
          simpleDatatypes |-> Present(SelectSeq(types, LAMBDA t : t.tag = "link")),
          userDatatypes |-> Present(SelectSeq(types, LAMBDA t : t.tag = "value")),
          tables |-> Present([t \in 1..Len(schema) |-> TableElement(schema[t])]),
          diagrams |-> Present(<<DiagramElement>>) ]

NoTriggerConfig == [present |-> FALSE, hasSection |-> FALSE, entries |-> <<>>]

\* no command line, no output file, no earlier run
NoArgs == [mwb |-> "", triggers |-> "", merge |-> <<>>, nocitext |-> FALSE, nofkidx |-> FALSE]
NoOutput == [written |-> FALSE, root |-> <<>>, tables |-> <<>>]
NoPrev == [outFile |-> NoOutput, exitCode |-> "", err |-> "", hashSeed |-> 0]

\* createDbm called on a schema graph, without the program around it
DirectCall ==
    /\ stage = "call" /\ args = NoArgs /\ outFile = NoOutput /\ exitCode = "" /\ mi = 0
    /\ run = "first" /\ prev = NoPrev /\ hashSeed = 0

\* the state on entry to createDbm
InitRun ==
    /\ pc = "start" /\ err = ""
    /\ ti = 0 /\ ci = 0 /\ ii = 0 /\ ri = 0
    /\ enums = {} /\ domains = {}
    /\ root = <<>> /\ tnodes = <<>>
    /\ customidxs = <<>> /\ colConstraints = <<>> /\ aiApplied = FALSE
    /\ fks = <<>> /\ indexes = <<>>
    /\ updateTsFunctions = <<>> /\ updateTsTriggers = <<>> /\ triggers = <<>>

InitWith(V, O, C) ==
    /\ IsSchemaOf(tables, V)
    /\ given = tables
    /\ opts \in O
    /\ triggerConfig \in C
    /\ InitRun
    /\ DirectCall

(***************************************************************************)
(* Main._addDomainNodes and Main._createUpdateTimestampFunction            *)
(***************************************************************************)
\* the domain element appended to parent's children
AddDomainNodes(parent, name, baseType, constraintName, constraintExpr) ==
    Append(parent, [ tag |-> "domain", name |-> name, baseType |-> baseType,
                     constraintName |-> constraintName, expr |-> constraintExpr ])

CreateUpdateTimestampFunction(funcName, colName) ==
    [ tag |-> "function", name |-> funcName, colName |-> colName ]

(***************************************************************************)
(* createDbm, one column (lines 298-537).  The steps of the loop body act  *)
(* in order on the record c of what the body has assigned so far; a step   *)
(* that raises sets c.err and the steps after it do nothing.               *)
(***************************************************************************)
IntTypes == <<str_smallint, str_integer, str_bigint>>

Raise(c, e) == [c EXCEPT !.err = e]

\* the locals and collections as the body of the column loop finds them
ColumnEntry(col) ==
    [ err |-> "", type |-> NoneStr, attrs |-> [length |-> str_0],
      node |-> [name |-> col.name], children |-> <<>>,
      dv |-> col.defaultValue, flags |-> col.flags,
      root |-> root, enums |-> enums, domains |-> domains,
      funcs |-> updateTsFunctions, tstrigs |-> updateTsTriggers,
      cons |-> colConstraints, aiApplied |-> aiApplied ]

\* lines 316-320: only one auto-increment column per table
StepAutoInc(c, col) ==
    IF col.autoIncrement # 0
    THEN IF c.aiApplied THEN Raise(c, "NotImplementedError") ELSE [c EXCEPT !.aiApplied = TRUE]
    ELSE c

\* the white space that str.strip() removes: blank, tab, line feed, carriage
\* return, form feed, vertical tab, the four separators 1C to 1F, next line,
\* no-break space, the ogham space mark, the spaces from U+2000 to U+200A,
\* the line and paragraph separators, and the spaces U+202F, U+205F, U+3000
IsSpace(ch) == ch \in {" ", "\t", "\n", "\r", "\f", "", "", "", "", "", "", " ", " ",
                       "U+2000", "U+2001", "U+2002", "U+2003", "U+2004", "U+2005", "U+2006",
                       "U+2007", "U+2008", "U+2009", "U+200A", "U+2028", "U+2029", "U+202F",
                       "U+205F", "U+3000"}

RECURSIVE LStrip(_)
LStrip(s) == IF s # <<>> /\ IsSpace(Head(s)) THEN LStrip(Tail(s)) ELSE s

RECURSIVE RStrip(_)
RStrip(s) == IF s # <<>> /\ IsSpace(s[Len(s)]) THEN RStrip(SubSeq(s, 1, Len(s) - 1)) ELSE s

\* s.strip()
Strip(s) == RStrip(LStrip(s))

\* s.split(',')
RECURSIVE SplitComma(_)
SplitComma(s) ==
    LET k == Find(s, str_comma)
    IN  IF k = -1 THEN <<s>> ELSE <<Take(s, k)>> \o SplitComma(Drop(s, k + 1))

\* ','.join(values)
RECURSIVE JoinComma(_)
JoinComma(values) ==
    IF values = <<>> THEN <<>>
    ELSE IF Len(values) = 1 THEN values[1]
    ELSE values[1] \o str_comma \o JoinComma(Tail(values))

\* s[1:-1]
Inner(s) == SubSeq(s, 2, Len(s) - 1)

\* lines 358-366: the enum's value list from datatypeExplicitParams
ParseEnumValues(params) ==
    IF params = NoneStr THEN [err |-> "AttributeError", values |-> <<>>]
    ELSE LET elt == Strip(params)
         IN  IF ~(StartsWith(elt, str_lparen) /\ EndsWith(elt, str_rparen))
             THEN [err |-> "AssertionError", values |-> <<>>]
             ELSE LET els == SplitComma(Inner(elt))
                      es  == [n \in 1..Len(els) |-> Strip(els[n])]
                  IN  IF \E n \in 1..Len(es) :
                            ~(StartsWith(es[n], str_quote) /\ EndsWith(es[n], str_quote))
                      THEN [err |-> "AssertionError", values |-> <<>>]
                      ELSE [err |-> "", values |-> [n \in 1..Len(es) |-> Strip(Inner(es[n]))]]

\* lines 352-354: the name of the enum type of a column
EnumTypeName(colName, used) ==
    IF (str_enum_ \o colName) \in used
    THEN str_enum_ \o IntToStr(Cardinality(used) + 1) \o str_us \o colName
    ELSE str_enum_ \o colName

\* lines 351-385
StepEnum(c, col) ==
    LET type == EnumTypeName(col.name, c.enums)
    IN  IF (str_enum_ \o col.name) \in c.enums /\ type \in c.enums
        THEN Raise(c, "AssertionError")
        ELSE LET c1 == [c EXCEPT !.enums = @ \cup {type}]
                 p  == ParseEnumValues(col.datatypeExplicitParams)
             IN  IF p.err # "" THEN Raise(c1, p.err)
                 ELSE [c1 EXCEPT !.root = Append(@, [ tag |-> "usertype", name |-> type,
                                                       values |-> JoinComma(p.values) ]),
                                 !.type = str_public_dot \o type]

\* mutant: the user type is not looked at
TinyintType_Smallint(col) == str_smallint

\* lines 326-330
TinyintType(col) ==
    IF col.isUserType /\ col.userTypeName \in {"UBOOL", "BOOLEAN", "BOOL"}
    THEN str_boolean
    ELSE str_smallint

\* lines 322-388: the destination type of the column's category
StepType(c, col) ==
    IF InList(col.category, <<cat_SMALLINT, cat_JSON, cat_DECIMAL, cat_VARCHAR, cat_BIGINT,
                              cat_DATE, cat_CHAR>>)
    THEN [c EXCEPT !.type = Lower(col.category)]
    ELSE IF col.category = cat_INT THEN [c EXCEPT !.type = str_integer]
    ELSE IF col.category = cat_TINYINT THEN [c EXCEPT !.type = TinyintType(col)]
    ELSE IF col.category = cat_FLOAT THEN [c EXCEPT !.type = str_real]
    ELSE IF col.category = cat_DOUBLE THEN [c EXCEPT !.type = str_double_precision]
    ELSE IF InList(col.category, <<cat_TIMESTAMP, cat_DATETIME, cat_TIMESTAMP_F, cat_DATETIME_F>>)
    THEN [c EXCEPT !.type = str_timestamptz, !.attrs = DictSet(@, "with-timezone", "true")]
    ELSE IF col.category = cat_TIME
    THEN [c EXCEPT !.type = str_timetz, !.attrs = DictSet(@, "with-timezone", "true")]
    ELSE IF col.category = cat_TINYTEXT
    THEN [c EXCEPT !.type = str_varchar, !.attrs = DictSet(@, "length", str_255)]
    ELSE IF col.category = cat_TEXT
    THEN [c EXCEPT !.type = str_varchar, !.attrs = DictSet(@, "length", str_65535)]
    ELSE IF col.category = cat_MEDIUMTEXT THEN [c EXCEPT !.type = str_text]
    ELSE IF col.category = cat_LONGTEXT THEN [c EXCEPT !.type = str_text]
    ELSE IF col.category = cat_ENUM THEN StepEnum(c, col)
    ELSE [c EXCEPT !.type = str_smallint]

\* lines 390-399: not-null and identity
StepNotNullIdentity(c, col, table) ==
    LET c1 == IF col.isNotNull # 0 THEN [c EXCEPT !.node = DictSet(@, "not-null", "true")] ELSE c
    IN  IF col.autoIncrement # 0 /\ InList(c1.type, IntTypes)
        THEN LET c2 == [c1 EXCEPT !.node = DictSet(@, "identity-type", "ALWAYS")]
             IN  IF table.nextAutoInc # NoneStr
                 THEN [c2 EXCEPT !.node = DictSet(@, "start", table.nextAutoInc)]
                 ELSE c2
        ELSE c1

\* mutant: a function per column
HasUpdateTsFunction_Never(funcs, funcName) == FALSE

\* line 422: the emulation function of this name is already there
HasUpdateTsFunction(funcs, funcName) == \E n \in 1..Len(funcs) : funcs[n].name = funcName

\* lines 416-441: ON UPDATE CURRENT_TIMESTAMP becomes a function and a trigger
StepOnUpdate(c, col, table) ==
    LET funcName == str_update_ \o col.name \o str_on_update
        trigger  == [ tag |-> "trigger", name |-> table.name \o str_t_update_ \o col.name,
                      firingType |-> "BEFORE", insEvent |-> "false", delEvent |-> "false",
                      updEvent |-> "true", table |-> str_public_dot \o table.name,
                      signature |-> str_public_dot \o funcName \o str_parens,
                      src |-> "updateTs" ]
    IN  [c EXCEPT !.dv = str_CURRENT_TIMESTAMP,
                  !.funcs = IF HasUpdateTsFunction(@, funcName) THEN @
                            ELSE Append(@, CreateUpdateTimestampFunction(funcName, col.name)),
                  !.tstrigs = Append(@, trigger)]

\* lines 401-446: the default value
StepDefault(c, col, table) ==
    IF c.dv # NoneStr
    THEN IF col.defaultValueIsNull # 0 THEN Raise(c, "AssertionError")
         ELSE LET c1 == IF c.dv = str_1
                        THEN (IF c.type = str_boolean THEN [c EXCEPT !.dv = str_TRUE] ELSE c)
                        ELSE IF c.dv = str_0
                        THEN (IF c.type = str_boolean THEN [c EXCEPT !.dv = str_FALSE] ELSE c)
                        ELSE IF c.dv \in {str_TRUE, str_FALSE, str_CURRENT_TIMESTAMP} THEN c
                        ELSE IF StartsWith(c.dv, str_quote) /\ EndsWith(c.dv, str_quote) THEN c
                        ELSE IF c.dv = str_CTS_ON_UPDATE THEN StepOnUpdate(c, col, table)
                        ELSE c
              IN  [c1 EXCEPT !.node = DictSet(@, "default-value", c1.dv)]
    ELSE c

\* mutant: every precision column gets a domain of its own
DomainKnown_Never(dname, doms) == FALSE

\* line 463: the domain of this name was already created
DomainKnown(dname, doms) == dname \in doms

\* lines 457-473: a domain for a precision without scale
StepPrecisionDomain(c, col) ==
    LET unsigned == InList("UNSIGNED", c.flags)
        dname    == (IF unsigned THEN str_u ELSE <<>>) \o c.type \o IntToStr(col.precision)
        minVal   == IF unsigned THEN IntToStr(0) ELSE str_minus \o Repeat("9", col.precision)
        maxVal   == Repeat("9", col.precision)
        c1       == IF DomainKnown(dname, c.domains) THEN c
                    ELSE [c EXCEPT !.root = AddDomainNodes(@, dname, c.type,
                                               str_range \o IntToStr(col.precision),
                                               str_VALUE_ge \o minVal \o str_AND_VALUE_le \o maxVal),
                                   !.domains = @ \cup {dname}]
        c2       == [c1 EXCEPT !.type = str_public_dot \o dname]
    IN  IF unsigned THEN [c2 EXCEPT !.flags = ListRemove(@, "UNSIGNED")]
        ELSE Raise(c2, "ValueError")

\* lines 448-480: length, precision, scale
StepLength(c, col) ==
    IF col.length > 0
    THEN IF ~(col.precision < 0 /\ col.scale < 0) THEN Raise(c, "AssertionError")
         ELSE IF c.attrs["length"] # str_0 THEN Raise(c, "AssertionError")
         ELSE [c EXCEPT !.attrs = DictSet(@, "length", IntToStr(col.length))]
    ELSE IF col.precision > 0
    THEN IF ~(col.length < 0) THEN Raise(c, "AssertionError")
         ELSE IF col.scale < 0 THEN StepPrecisionDomain(c, col)
         ELSE IF c.attrs["length"] # str_0 THEN Raise(c, "AssertionError")
         ELSE [c EXCEPT !.attrs = DictSet(DictSet(@, "length", IntToStr(col.precision)),
                                          "precision", IntToStr(col.scale))]
    ELSE IF col.scale > 0 THEN Raise(c, "AssertionError")
    ELSE c

\* lines 485-505: one flag
ApplyFlag(c, flag, col, table) ==
    IF flag = "UNSIGNED"
    THEN IF InList(c.type, IntTypes)
         THEN IF col.autoIncrement # 0 THEN c
              ELSE [c EXCEPT !.type = str_public_dot_u \o c.type]
         ELSE [c EXCEPT !.cons = Append(@,
                  [ tag |-> "constraint", name |-> table.name \o str_us \o col.name \o str_us_ge0,
                    type |-> "ck-constr", table |-> str_public_dot \o table.name,
                    expr |-> col.name \o str_sp_ge_0 ])]
    ELSE c

\* lines 482-505: the flags, in order
RECURSIVE StepFlags(_, _, _, _)
StepFlags(c, n, col, table) ==
    IF n > Len(c.flags) THEN c
    ELSE StepFlags(ApplyFlag(c, c.flags[n], col, table), n + 1, col, table)

\* lines 507-525: char types become citext with a length check
StepCitext(c, col, table) ==
    IF ~opts.nocitext /\ c.type \in {str_varchar, str_char}
    THEN IF "precision" \in DOMAIN c.attrs THEN Raise(c, "AssertionError")
         ELSE IF "length" \notin DOMAIN c.attrs THEN Raise(c, "AssertionError")
         ELSE LET op == IF c.type = str_char THEN str_eq ELSE str_le
              IN  [c EXCEPT
                     !.cons = Append(@,
                        [ tag |-> "constraint", name |-> table.name \o str_us \o col.name \o str_len,
                          type |-> "ck-constr", table |-> str_public_dot \o table.name,
                          expr |-> str_length_open \o col.name \o str_close_sp \o op \o str_sp
                                   \o c.attrs["length"] ]),
                     !.type = str_citext,
                     !.attrs = DictDel(@, "length")]
    ELSE c

\* lines 527-537: the type element and the comment
StepTypeNode(c, col) ==
    LET typenode == [tag |-> "type", attrs |-> DictSet(c.attrs, "name", c.type)]
    IN  [c EXCEPT !.children =
            <<typenode>> \o (IF col.hasComment THEN <<[tag |-> "comment", text |-> col.comment]>>
                             ELSE <<>>)]

\* a step is skipped once an earlier one has raised
Then(c, Step(_)) == IF c.err # "" THEN c ELSE Step(c)

\* the body of the column loop for a column that is no foreign-key member
ColumnBody(col, table) ==
    Then(Then(Then(Then(Then(Then(Then(
        StepAutoInc(ColumnEntry(col), col),
        LAMBDA c : StepType(c, col)),
        LAMBDA c : StepNotNullIdentity(c, col, table)),
        LAMBDA c : StepDefault(c, col, table)),
        LAMBDA c : StepLength(c, col)),
        LAMBDA c : StepFlags(c, 1, col, table)),
        LAMBDA c : StepCitext(c, col, table)),
        LAMBDA c : StepTypeNode(c, col))

(***************************************************************************)
(* createDbm: the actions                                                  *)
(***************************************************************************)
\* an exception ends the run where it is raised: pc stays, err names it
Abort(e) == pc' = pc /\ err' = e

At(p) == pc = p /\ err = ""

\* lines 35-36, 180-181, 271-272: int(v * POS_SCALE_X) and int(v * POS_SCALE_Y)
\* with the ratios 1.8 and 1.2, on whole coordinates; int() rounds towards 0
Scaled(v, tenths) == IF v >= 0 THEN (v * tenths) \div 10 ELSE 0 - (((0 - v) * tenths) \div 10)

\* Diagram.getFigureLayer: the position, in the diagram's layers, of the first
\* layer with the identifier the figure names; 0 stands for None
GetFigureLayer(layers, figure) ==
    IF \E n \in 1..Len(layers) : layers[n].id = figure.layer
    THEN CHOOSE n \in 1..Len(layers) :
            /\ layers[n].id = figure.layer
            /\ \A m \in 1..(n - 1) : layers[m].id # figure.layer
    ELSE 0

\* lines 166-227: a textbox and a tag element for every layer of the diagram
\* (the styles of the tag are left out)
LayerElements(layers) ==
    [k \in 1..(2 * Len(layers)) |->
        LET layer == layers[(k + 1) \div 2]
        IN  IF k % 2 = 1
            THEN [tag |-> "textbox", name |-> layer.name,
                  position |-> [x |-> Scaled(layer.left, 18), y |-> Scaled(layer.top, 12)]]
            ELSE [tag |-> "tag", name |-> Lower(layer.name)]]

\* lines 270-273: the conditional expression takes in the sum, so that a
\* figure on no layer is placed at 0
FigurePosition(layers, figure) ==
    LET n == GetFigureLayer(layers, figure)
    IN  [x |-> Scaled(IF n # 0 THEN figure.left + layers[n].left ELSE 0, 18),
         y |-> Scaled(IF n # 0 THEN figure.top + layers[n].top ELSE 0, 12)]

\* the seeds of the string hashes of a process
HashSeeds == {0, 1}

\* mutant: the names are kept in a set, which is walked in the order of the
\* hashes of its elements
Walk_Hashed(seq, seed) ==
    IF seed = 0 THEN seq ELSE [n \in 1..Len(seq) |-> seq[Len(seq) + 1 - n]]

\* line 231: a tuple is walked in the order in which it is written, whatever
\* the hash seed (so are the lists of the schema graph and the OrderedDict
\* updateTsFunctions)
Walk(seq, seed) == seq

\* lines 123-240: the root, its fixed children, the elements of the layers
\* and the three base domains
RECURSIVE AddBaseDomains(_, _)
AddBaseDomains(r, names) ==
    IF names = <<>> THEN r
    ELSE AddBaseDomains(AddDomainNodes(r, str_u \o Head(names), Head(names), str_ge0, str_VALUE_ge_0),
                        Tail(names))

BaseDomains(r) == AddBaseDomains(r, Walk(<<str_smallint, str_integer, str_bigint>>, hashSeed))

\* The loop over the layers ends the run at the first layer that no table
\* figure lies on (line 167: getFirstTableFigureForLayer raises KeyError) or
\* that has no name (line 173: None is no attribute value, TypeError); the
\* root then holds the elements of the layers before it and nothing after.
Start ==
    /\ At("start")
    /\ LET layers == opts.layers
           raised(n) == IF \A t \in 1..Len(tables) :
                              \/ ~tables[t].figure.found
                              \/ GetFigureLayer(layers, tables[t].figure) # n
                        THEN "KeyError"
                        ELSE IF layers[n].name = NoneStr THEN "TypeError" ELSE ""
           bad  == { n \in 1..Len(layers) : raised(n) # "" }
           stop == IF bad = {} THEN 0 ELSE CHOOSE n \in bad : \A m \in bad : n <= m
           base == <<[tag |-> "database"], [tag |-> "schema"]>>
                   \o (IF opts.nocitext THEN <<>> ELSE <<[tag |-> "extension"]>>)
                   \o LayerElements(SubSeq(layers, 1, IF stop = 0 THEN Len(layers) ELSE stop - 1))
       IN  IF stop = 0
           THEN /\ root' = BaseDomains(base)
                /\ domains' = {str_u \o str_smallint, str_u \o str_integer, str_u \o str_bigint}
                /\ enums' = {}
                /\ ti' = 1
                /\ pc' = (IF Len(tables) = 0 THEN "rels" ELSE "table")
                /\ ri' = 1
                /\ tnodes' = <<>>
                /\ fks' = <<>> /\ indexes' = <<>>
                /\ updateTsFunctions' = <<>> /\ updateTsTriggers' = <<>> /\ triggers' = <<>>
                /\ UNCHANGED err
           ELSE /\ root' = base
                /\ Abort(raised(stop))
                /\ UNCHANGED <<domains, enums, ti, ri, tnodes, fks, indexes, updateTsFunctions,
                               updateTsTriggers, triggers>>
    /\ UNCHANGED <<driver, given, tables, opts, triggerConfig, ci, ii, customidxs, colConstraints,
                   aiApplied>>

\* lines 243-288: a new table element, not yet in the root.  Without a figure
\* for the table in the diagram, getTableFigure raises KeyError at line 246,
\* after colConstraints was reset.
BeginTable ==
    /\ At("table")
    /\ colConstraints' = <<>>
    /\ IF ~tables[ti].figure.found
       THEN /\ Abort("KeyError")
            /\ UNCHANGED <<tnodes, customidxs, aiApplied, ci>>
       ELSE /\ tnodes' = Append(tnodes, [tag |-> "table", name |-> tables[ti].name,
                                 \* lines 264-268: the tag of the figure's layer, None without one
                                 layerTag |-> LET n == GetFigureLayer(opts.layers, tables[ti].figure)
                                              IN  IF n # 0 THEN Lower(opts.layers[n].name) ELSE NoneStr,
                                 position |-> FigurePosition(opts.layers, tables[ti].figure),
                                 children |-> <<>>])
            /\ customidxs' = <<>>
            /\ aiApplied' = FALSE
            /\ ci' = 1
            /\ pc' = "column"
            /\ UNCHANGED err
    /\ UNCHANGED <<driver, given, tables, opts, triggerConfig, ti, ii, ri, enums, domains, root, fks,
                   indexes, updateTsFunctions, updateTsTriggers, triggers>>

\* mutant: the back reference is never looked at
IsFkMember_Never(col) == FALSE

\* line 293: the column is a member of a foreign key
IsFkMember(col) == col.fk # 0

\* lines 289-296: a foreign-key member is only recorded in the ordering hint
SkipFkColumn ==
    /\ At("column")
    /\ ci <= Len(tables[ti].columns)
    /\ IsFkMember(tables[ti].columns[ci])
    /\ customidxs' = Append(customidxs, [index |-> ci - 1, name |-> tables[ti].columns[ci].name])
    /\ ci' = ci + 1
    /\ UNCHANGED <<driver, given, tables, opts, triggerConfig, pc, err, ti, ii, ri, enums, domains, root, tnodes,
                   colConstraints, aiApplied, fks, indexes, updateTsFunctions,
                   updateTsTriggers, triggers>>

\* lines 298-537: a column element with its type
ProcessColumn ==
    /\ At("column")
    /\ ci <= Len(tables[ti].columns)
    /\ ~IsFkMember(tables[ti].columns[ci])
    /\ LET c == ColumnBody(tables[ti].columns[ci], tables[ti])
       IN  /\ tnodes' = [tnodes EXCEPT ![ti].children =
                            Append(@, [ tag |-> "column", attrs |-> c.node,
                                        children |-> c.children, src |-> ci ])]
           /\ tables' = [tables EXCEPT ![ti].columns[ci].flags = c.flags]
           /\ root' = c.root
           /\ enums' = c.enums
           /\ domains' = c.domains
           /\ updateTsFunctions' = c.funcs
           /\ updateTsTriggers' = c.tstrigs
           /\ colConstraints' = c.cons
           /\ aiApplied' = c.aiApplied
           /\ IF c.err # "" THEN Abort(c.err) /\ ci' = ci
              ELSE UNCHANGED <<pc, err>> /\ ci' = ci + 1
    /\ UNCHANGED <<driver, given, opts, triggerConfig, ti, ii, ri, customidxs, fks, indexes, triggers>>

\* lines 539-544: the column constraints, then the table joins the root
EndColumns ==
    /\ At("column")
    /\ ci > Len(tables[ti].columns)
    /\ tnodes' = [tnodes EXCEPT ![ti].children = @ \o colConstraints]
    /\ root' = Append(root, [tag |-> "table", name |-> tables[ti].name, ref |-> ti])
    /\ ii' = 1
    /\ pc' = "index"
    /\ UNCHANGED <<driver, given, tables, opts, triggerConfig, err, ti, ci, ri, enums, domains, customidxs,
                   colConstraints, aiApplied, fks, indexes, updateTsFunctions,
                   updateTsTriggers, triggers>>

\* mutant: the foreign-key members are listed too
PkColumns_All(table, index) ==
    [m \in 1..Len(index.columns) |-> table.columns[index.columns[m].col].name]

\* line 564: the names of the index's member columns that are no foreign-key members
PkColumns(table, index) ==
    LET keep == SelectSeq(index.columns, LAMBDA ic : ~IsFkMember(table.columns[ic.col]))
    IN  [m \in 1..Len(keep) |-> table.columns[keep[m].col].name]

\* lines 572-576: the index name, with the table name in front when asked for
\* and missing; an index without a name has None for it, and None.find raises
PrefixedIdxName(table, index) ==
    IF index.name = NoneStr
    THEN [err |-> "AttributeError", name |-> NoneStr]
    ELSE [err |-> "",
          name |-> (IF Find(index.name, table.name) = -1 /\ opts.prependTableNameInIdx
                    THEN table.name \o str_us ELSE <<>>) \o index.name]

\* mutant: the suffix is added to the first 63 characters
TruncateIdxName_Whole(idxname) == Take(idxname, MAX_NAME_LEN) \o str_idx

\* line 581: an over-long name cut to fit, keeping the suffix
TruncateIdxName(idxname) == Take(idxname, MAX_NAME_LEN - 4) \o str_idx

\* mutant: indexes of foreign-key members are kept only when UNIQUE
KeepIdx_UniqueOnly == {TYPE_UNIQUE}

\* line 551
KeepIdx == IF opts.nofkidx THEN {TYPE_UNIQUE} ELSE {TYPE_UNIQUE, TYPE_INDEX}

\* lines 582-602
IndexNode(table, index, idxname) ==
    [ tag |-> "index", name |-> idxname, table |-> str_public_dot \o table.name,
      unique |-> IF index.unique # 0 THEN "true" ELSE "false",
      elements |-> [m \in 1..Len(index.columns) |->
                      [ ascOrder |-> IF index.columns[m].descend # 0 THEN "false" ELSE "true",
                        column |-> table.columns[index.columns[m].col].name ]],
      src |-> <<ti, ii>> ]

\* lines 547-604: one index of the table
ProcessIndex ==
    /\ At("index")
    /\ ii <= Len(tables[ti].indices)
    /\ LET table == tables[ti]
           index == table.indices[ii]
           icols == SelectSeq(index.columns, LAMBDA ic : ~IsFkMember(table.columns[ic.col]))
           prefixed == PrefixedIdxName(table, index)
           idxname == prefixed.name
       IN  IF icols = <<>> /\ index.indexType \notin KeepIdx
           THEN /\ ii' = ii + 1
                /\ UNCHANGED <<pc, err, tnodes, indexes>>
           ELSE IF index.indexType = TYPE_PRIMARY
           THEN /\ tnodes' = [tnodes EXCEPT ![ti].children = Append(@,
                                [ tag |-> "constraint", name |-> table.name \o str_pk,
                                  type |-> "pk-constr", table |-> str_public_dot \o table.name,
                                  columns |-> JoinComma(PkColumns(table, index)),
                                  src |-> ii ])]
                /\ ii' = ii + 1
                /\ UNCHANGED <<pc, err, indexes>>
           ELSE IF index.indexType \in {TYPE_UNIQUE, TYPE_INDEX}
           THEN IF prefixed.err # ""
                THEN /\ Abort(prefixed.err)
                     /\ UNCHANGED <<ii, tnodes, indexes>>
                ELSE IF Len(idxname) > MAX_NAME_LEN /\ ~EndsWith(idxname, str_idx)
                THEN /\ Abort("AssertionError")
                     /\ UNCHANGED <<ii, tnodes, indexes>>
                ELSE /\ indexes' = Append(indexes,
                            IndexNode(table, index,
                                      IF Len(idxname) > MAX_NAME_LEN
                                      THEN TruncateIdxName(idxname) ELSE idxname))
                     /\ ii' = ii + 1
                     /\ UNCHANGED <<pc, err, tnodes>>
           ELSE /\ Abort("NotImplementedError")
                /\ UNCHANGED <<ii, tnodes, indexes>>
    /\ UNCHANGED <<driver, given, tables, opts, triggerConfig, ti, ci, ri, enums, domains, root, customidxs,
                   colConstraints, aiApplied, fks, updateTsFunctions, updateTsTriggers, triggers>>

\* line 886: reading an option interpolates its value as the parser's
\* BasicInterpolation does: %% stands for a percent sign and %(name)s for the
\* value of the option of that name, taken in lower case and interpolated in
\* turn when it holds a percent sign, to a depth of 10; any other use of a
\* percent sign raises
RECURSIVE InterpolateSome(_, _, _)
InterpolateSome(entries, rest, depth) ==
    LET raise(e) == [err |-> e, text |-> NoneStr]
        after(prefix, tail) ==
            LET r == InterpolateSome(entries, tail, depth)
            IN  IF r.err # "" THEN r ELSE [err |-> "", text |-> prefix \o r.text]
        p == Find(rest, <<"%">>)
        r == Drop(rest, p)
        c == Take(Drop(r, 1), 1)
        close == Find(r, <<")">>)
        var == Lower(SubSeq(r, 3, close))
        known == { n \in 1..Len(entries) : entries[n].name = var }
        v == entries[CHOOSE n \in known : TRUE].signature
        sub == IF Find(v, <<"%">>) # -1 THEN InterpolateSome(entries, v, depth + 1)
               ELSE [err |-> "", text |-> v]
    IN  IF depth > 10 THEN raise("InterpolationDepthError")
        ELSE IF p = -1 THEN [err |-> "", text |-> rest]
        ELSE IF c = <<"%">> THEN after(Take(rest, p) \o <<"%">>, Drop(r, 2))
        ELSE IF c = <<"(">>
        THEN IF close < 3 \/ Take(Drop(r, close + 1), 1) # <<"s">>
             THEN raise("InterpolationSyntaxError")
             ELSE IF known = {} THEN raise("InterpolationMissingOptionError")
             ELSE IF sub.err # "" THEN sub
             ELSE after(Take(rest, p) \o sub.text, Drop(r, close + 2))
        ELSE raise("InterpolationSyntaxError")

\* TriggerConfig.getFunctionForTrigger: the configured signature, None as
\* [found |-> FALSE]; self['Triggers'] raises KeyError without that section,
\* and an empty section is false, so the name is not looked at.  The parser
\* keeps option names in lower case and looks them up in lower case, which
\* raises for a trigger without a name.  entries are the options that the
\* section shows, those of the DEFAULT section included.
GetFunctionForTrigger(cfg, triggerName) ==
    LET none(e) == [err |-> e, found |-> FALSE, value |-> NoneStr]
        known == { n \in 1..Len(cfg.entries) : cfg.entries[n].name = Lower(triggerName) }
        read == InterpolateSome(cfg.entries, cfg.entries[CHOOSE n \in known : TRUE].signature, 1)
    IN  IF ~cfg.hasSection THEN none("KeyError")
        ELSE IF cfg.entries = <<>> THEN none("")
        ELSE IF triggerName = NoneStr THEN none("AttributeError")
        ELSE IF known = {} THEN none("")
        ELSE IF read.err # "" THEN none(read.err)
        ELSE [err |-> "", found |-> TRUE, value |-> read.text]

\* lines 633-651: the trigger element of a source trigger
TriggerNode(table, trigger, signature) ==
    [ tag |-> "trigger", name |-> trigger.name, firingType |-> trigger.timing,
      insEvent |-> IF trigger.event = "INSERT" THEN "true" ELSE "false",
      delEvent |-> IF trigger.event = "DELETE" THEN "true" ELSE "false",
      updEvent |-> IF trigger.event = "UPDATE" THEN "true" ELSE "false",
      table |-> str_public_dot \o table.name, signature |-> signature, src |-> "config" ]

\* lines 625-653: the table's triggers that the configuration knows, in order;
\* out.err is set where the lookup raises
RECURSIVE TableTriggers(_, _, _, _)
TableTriggers(cfg, table, n, out) ==
    IF n > Len(table.triggers) THEN out
    ELSE LET f == GetFunctionForTrigger(cfg, table.triggers[n].name)
         IN  IF f.err # "" THEN [out EXCEPT !.err = f.err]
             ELSE IF ~f.found \/ f.value = NoneStr THEN TableTriggers(cfg, table, n + 1, out)
             ELSE TableTriggers(cfg, table, n + 1,
                    [out EXCEPT !.nodes = Append(@, TriggerNode(table, table.triggers[n], f.value))])

\* lines 606-653: the table's foreign keys are queued, the ordering hint and
\* the configured triggers are added
EndTable ==
    /\ At("index")
    /\ ii > Len(tables[ti].indices)
    /\ fks' = fks \o [k \in 1..Len(tables[ti].fks) |-> [t |-> ti, k |-> k]]
    /\ tnodes' = IF customidxs # <<>>
                 THEN [tnodes EXCEPT ![ti].children = Append(@,
                         [tag |-> "customidxs", objectType |-> "column", objects |-> customidxs])]
                 ELSE tnodes
    /\ LET out == IF triggerConfig.present
                  THEN TableTriggers(triggerConfig, tables[ti], 1, [err |-> "", nodes |-> <<>>])
                  ELSE [err |-> "", nodes |-> <<>>]
       IN  /\ triggers' = triggers \o out.nodes
           /\ IF out.err # "" THEN Abort(out.err) /\ ti' = ti
              ELSE /\ err' = err
                   /\ ti' = ti + 1
                   /\ pc' = IF ti < Len(tables) THEN "table" ELSE "rels"
    /\ UNCHANGED <<driver, given, tables, opts, triggerConfig, ci, ii, ri, enums, domains, root, customidxs,
                   colConstraints, aiApplied, indexes, updateTsFunctions, updateTsTriggers>>

\* mutant: the foreign keys in the order they were queued
SortedFks_Unsorted(list) == list

\* line 657: sorted(fks, key=primary, reverse=True), a stable sort
SortedFks(list) ==
    SelectSeq(list, LAMBDA f : tables[f.t].fks[f.k].primary)
    \o SelectSeq(list, LAMBDA f : ~tables[f.t].fks[f.k].primary)

\* mutant: src-required follows the foreign key alone
RelationshipNode_Mandatory(fk, scol, rtable, table, ref) ==
    [ tag |-> "relationship", name |-> fk.name, type |-> "rel1n",
      srcColPattern |-> scol.name,
      srcTable |-> str_public_dot \o rtable.name,
      dstTable |-> str_public_dot \o table.name,
      srcRequired |-> IF fk.mandatory # 0 THEN "true" ELSE "false",
      identifier |-> IF fk.primary THEN "true" ELSE "false",
      updAction |-> fk.updateRule, delAction |-> fk.deleteRule, src |-> ref ]

\* lines 675-700
RelationshipNode(fk, scol, rtable, table, ref) ==
    [ tag |-> "relationship", name |-> fk.name, type |-> "rel1n",
      srcColPattern |-> scol.name,
      srcTable |-> str_public_dot \o rtable.name,
      dstTable |-> str_public_dot \o table.name,
      srcRequired |-> IF fk.mandatory # 0 /\ scol.isNotNull # 0 THEN "true" ELSE "false",
      identifier |-> IF fk.primary THEN "true" ELSE "false",
      updAction |-> fk.updateRule, delAction |-> fk.deleteRule, src |-> ref ]

\* lines 657-701: one foreign key of the sorted list
Relationship ==
    /\ At("rels")
    /\ ri <= Len(fks)
    /\ LET ref   == SortedFks(fks)[ri]
           table == tables[ref.t]
           fk    == table.fks[ref.k]
           rts   == {r \in 1..Len(tables) : tables[r].id = fk.referencedTable}
       IN  IF ~fk.hasReferencedTable
           THEN ri' = ri + 1 /\ UNCHANGED <<pc, err, root>>
           ELSE IF fk.many = 0
           THEN Abort("NotImplementedError") /\ UNCHANGED <<ri, root>>
           ELSE IF rts = {}
           THEN Abort("AssertionError") /\ UNCHANGED <<ri, root>>
           ELSE IF Len(fk.columns) # 1
           THEN Abort("NotImplementedError") /\ UNCHANGED <<ri, root>>
           ELSE /\ root' = Append(root,
                      RelationshipNode(fk, table.columns[fk.columns[1]],
                                       tables[CHOOSE r \in rts : \A q \in rts : r <= q],
                                       table, ref))
                /\ ri' = ri + 1
                /\ UNCHANGED <<pc, err>>
    /\ UNCHANGED <<driver, given, tables, opts, triggerConfig, ti, ci, ii, enums, domains, tnodes, customidxs,
                   colConstraints, aiApplied, fks, indexes, updateTsFunctions,
                   updateTsTriggers, triggers>>

\* mutant: the functions before the indexes
FinalAppends_Swapped(r, idx, funcs, tstrigs, trigs) == r \o funcs \o idx \o tstrigs \o trigs

\* lines 703-715: what was deferred joins the root
FinalAppends(r, idx, funcs, tstrigs, trigs) == r \o idx \o funcs \o tstrigs \o trigs

Finish ==
    /\ At("rels")
    /\ ri > Len(fks)
    /\ root' = FinalAppends(root, indexes, updateTsFunctions, updateTsTriggers, triggers)
    /\ pc' = "done"
    /\ UNCHANGED <<driver, given, tables, opts, triggerConfig, err, ti, ci, ii, ri, enums, domains, tnodes,
                   customidxs, colConstraints, aiApplied, fks, indexes, updateTsFunctions,
                   updateTsTriggers, triggers>>

Next ==
    \/ Start
    \/ BeginTable
    \/ SkipFkColumn
    \/ ProcessColumn
    \/ EndColumns
    \/ ProcessIndex
    \/ EndTable
    \/ Relationship
    \/ Finish

(***************************************************************************)
(* Specifications: the same program over different families of schemas.    *)
(* Every family holds a foreign-key member, so that every step of the      *)
(* synthesis has work in every specification.                              *)
(***************************************************************************)
DefaultOpts == [prependTableNameInIdx |-> TRUE, nocitext |-> FALSE, nofkidx |-> FALSE,
                layers |-> <<>>]

\* a member of the primary key that is a foreign key to the first table
RefCol == [PlainCol EXCEPT !.fkKind = "ok", !.inPk = TRUE]

\* the schemas of one column of V, alone or followed by foreign-key members
InitOneOf(V, O) ==
    /\ \E v \in V : \E k \in 0..(MaxCols - 1) : \E B \in SUBSET (1..k) :
          /\ Cardinality(B) < MaxTables
          /\ tables = MkSchema(<<v>> \o [n \in 1..k |-> RefCol], B)
          /\ WellFormed(MkSchema(<<v>> \o [n \in 1..k |-> RefCol], B))
    /\ given = tables
    /\ opts \in O
    /\ triggerConfig = NoTriggerConfig
    /\ InitRun
    /\ DirectCall

\* foreign-key members and primary keys
FkCols ==
    { [PlainCol EXCEPT !.fkKind = k, !.inPk = p] :
        k \in {"none", "ok", "noref"}, p \in BOOLEAN }

InitFk == InitWith(FkCols, {DefaultOpts}, {NoTriggerConfig})

SpecFk == InitFk /\ [][Next]_vars

\* numeric columns with a precision and no scale, signed and unsigned, and an
\* unsigned column without precision
NumCols ==
    { [PlainCol EXCEPT !.category = k[1], !.precision = k[2], !.flags = k[3], !.inPk = TRUE] :
        k \in { <<cat_INT, 2, <<"UNSIGNED">> >>, <<cat_INT, 10, <<"UNSIGNED">> >>,
                <<cat_INT, 2, <<>> >>, <<cat_SMALLINT, 2, <<"UNSIGNED">> >>,
                <<cat_INT, -1, <<"UNSIGNED">> >> } }
    \cup {RefCol}

InitNum == InitWith(NumCols, {DefaultOpts}, {NoTriggerConfig})

SpecNum == InitNum /\ [][Next]_vars

\* ENUM columns named x and 3_x, and one named after its position
str_x == <<"x">>
str_3_x == <<"3", "_", "x">>

EnumCols ==
    { [PlainCol EXCEPT !.category = cat_ENUM, !.name = n,
                       !.datatypeExplicitParams = str_enum_params, !.inPk = TRUE] :
        n \in {str_x, str_3_x, NoneStr} }
    \cup {RefCol}

InitEnum == InitWith(EnumCols, {DefaultOpts}, {NoTriggerConfig})

SpecEnum == InitEnum /\ [][Next]_vars

\* columns with an index of their own, whose name is short, at the limit with
\* the table name in front, just over it, well over it with and without the
\* suffix _idx, holds the first table's name, or is missing
IdxCols ==
    { [PlainCol EXCEPT !.idxType = x[1], !.idxName = x[2]] :
        x \in { <<TYPE_INDEX,  Repeat("a", 56) \o str_idx>>,
                <<TYPE_INDEX,  Repeat("a", 57) \o str_idx>>,
                <<TYPE_UNIQUE, Repeat("a", 66) \o str_idx>>,
                <<TYPE_INDEX,  Repeat("a", 70)>>,
                <<TYPE_INDEX,  TableName(1) \o str_idx>>,
                <<TYPE_INDEX,  NoneStr>> } }
    \cup {RefCol}

IdxOpts == { [DefaultOpts EXCEPT !.prependTableNameInIdx = b] : b \in BOOLEAN }

InitIdx == InitWith(IdxCols, IdxOpts, {NoTriggerConfig})

SpecIdx == InitIdx /\ [][Next]_vars

\* timestamp columns: ON UPDATE CURRENT_TIMESTAMP under two names, the same
\* default on a foreign-key member, and a plain CURRENT_TIMESTAMP
str_updated_at == <<"u", "p", "d", "a", "t", "e", "d", "_", "a", "t">>
str_ts == <<"t", "s">>

TsCols ==
    { [PlainCol EXCEPT !.category = cat_TIMESTAMP, !.name = x[1], !.defaultValue = x[2],
                       !.fkKind = x[3], !.inPk = TRUE] :
        x \in { <<str_updated_at, str_CTS_ON_UPDATE, "none">>,
                <<str_ts, str_CTS_ON_UPDATE, "none">>,
                <<NoneStr, str_CTS_ON_UPDATE, "ok">>,
                <<NoneStr, str_CURRENT_TIMESTAMP, "none">> } }

InitTs == InitWith(TsCols, {DefaultOpts}, {NoTriggerConfig})

SpecTs == InitTs /\ [][Next]_vars

\* one column of every kind of output: an enum, a precision domain with an
\* index, a timestamp with ON UPDATE, an index and a configured trigger, a
\* column with a trigger the configuration does not know, a foreign key
str_trg == <<"t", "r", "g">>
str_other == <<"o", "t", "h", "e", "r">>
str_public_f == <<"p", "u", "b", "l", "i", "c", ".", "f", "(", ")">>

Cfg == [present |-> TRUE, hasSection |-> TRUE,
        entries |-> <<[name |-> str_trg, signature |-> str_public_f]>>]

AllCols ==
    { [PlainCol EXCEPT !.category = cat_ENUM, !.datatypeExplicitParams = str_enum_params,
                       !.inPk = TRUE],
      [PlainCol EXCEPT !.precision = 2, !.flags = <<"UNSIGNED">>,
                       !.idxType = TYPE_INDEX, !.idxName = str_x \o str_idx],
      [PlainCol EXCEPT !.category = cat_TIMESTAMP, !.defaultValue = str_CTS_ON_UPDATE,
                       !.idxType = TYPE_UNIQUE, !.idxName = str_ts \o str_idx,
                       !.trigEvent = "UPDATE", !.trigName = str_trg],
      [PlainCol EXCEPT !.inPk = TRUE, !.trigEvent = "INSERT", !.trigName = str_other],
      RefCol }

Init == InitWith(AllCols, {DefaultOpts}, {NoTriggerConfig, Cfg})

Spec == Init /\ [][Next]_vars

\* one column of each source category, TINYINT under each type name, alone or
\* followed by foreign-key members
TypeCategories ==
    { cat_SMALLINT, cat_JSON, cat_DECIMAL, cat_VARCHAR, cat_BIGINT, cat_DATE, cat_CHAR, cat_INT,
      cat_FLOAT, cat_DOUBLE, cat_TIMESTAMP, cat_DATETIME, cat_TIMESTAMP_F, cat_DATETIME_F,
      cat_TIME, cat_TINYTEXT, cat_TEXT, cat_MEDIUMTEXT, cat_LONGTEXT, cat_BLOB }

TypeCols ==
    { [PlainCol EXCEPT !.category = k, !.inPk = TRUE] : k \in TypeCategories }
    \cup { [PlainCol EXCEPT !.category = cat_TINYINT, !.isUserType = u[1], !.userTypeName = u[2],
                            !.inPk = TRUE] :
             u \in { <<FALSE, "">>, <<TRUE, "UBOOL">>, <<TRUE, "BOOLEAN">>, <<TRUE, "BOOL">>,
                     <<TRUE, "FLAG">> } }
    \cup { [PlainCol EXCEPT !.category = cat_ENUM, !.datatypeExplicitParams = str_enum_params,
                            !.inPk = TRUE] }

TypeOpts == { [DefaultOpts EXCEPT !.nocitext = b] : b \in BOOLEAN }

InitType ==
    /\ \E v \in TypeCols : \E k \in 0..(MaxCols - 1) : \E B \in SUBSET (1..k) :
          /\ Cardinality(B) < MaxTables
          /\ tables = MkSchema(<<v>> \o [n \in 1..k |-> RefCol], B)
          /\ WellFormed(MkSchema(<<v>> \o [n \in 1..k |-> RefCol], B))
    /\ given = tables
    /\ opts \in TypeOpts
    /\ triggerConfig = NoTriggerConfig
    /\ InitRun
    /\ DirectCall

SpecType == InitType /\ [][Next]_vars

\* auto-increment and other columns of the integer types and DECIMAL, signed
\* and unsigned, with a length, a precision, a precision and a scale or none
IdentShapes == { <<-1, -1, -1>>, <<2, -1, -1>>, <<-1, 2, -1>>, <<-1, 2, 0>> }
IdentCols ==
    { [PlainCol EXCEPT !.category = k, !.flags = f, !.autoIncrement = a, !.length = x[1],
                       !.precision = x[2], !.scale = x[3], !.inPk = TRUE] :
        k \in {cat_SMALLINT, cat_INT, cat_BIGINT, cat_DECIMAL},
        f \in { <<>>, <<"UNSIGNED">>, <<"UNSIGNED", "UNSIGNED">> },
        a \in {0, 1},
        x \in IdentShapes }
InitIdent == InitOneOf(IdentCols, {DefaultOpts})
SpecIdent == InitIdent /\ [][Next]_vars

\* table figures: one to MaxTables tables of one key column each (a foreign
\* key to the first table in the tables after it), every
\* figure at one of two places and naming no layer, the first or the second
\* layer, or missing from the diagram; the diagram has no, one or two layers, the second to the left of
\* the origin and with or without a name
str_L1 == <<"L", "1">>
str_l2 == <<"l", "2">>
PosLayers ==
    << [id |-> 1, name |-> str_L1, left |-> 10, top |-> 20],
       [id |-> 2, name |-> str_l2, left |-> -5, top |-> 7] >>
PosFigures ==
    { [found |-> TRUE, left |-> p[1], top |-> p[2], layer |-> l] :
        p \in {<<3, 4>>, <<5, 9>>}, l \in 0..2 }
    \cup { [OriginFigure EXCEPT !.found = FALSE] }
InitPos ==
    /\ \E n \in 1..MaxTables : \E f \in [1..n -> PosFigures] :
          LET schema == MkSchema([c \in 1..n |-> IF c = 1 THEN [PlainCol EXCEPT !.inPk = TRUE]
                                                          ELSE RefCol], 1..(n - 1))
          IN  tables = [t \in 1..n |-> [schema[t] EXCEPT !.figure = f[t]]]
    /\ given = tables
    /\ \E k \in 0..3 :
          opts = [DefaultOpts EXCEPT !.layers =
                     IF k < 3 THEN SubSeq(PosLayers, 1, k)
                     ELSE <<PosLayers[1], [PosLayers[2] EXCEPT !.name = NoneStr]>>]
    /\ triggerConfig = NoTriggerConfig
    /\ InitRun
    /\ DirectCall
SpecPos == InitPos /\ [][Next]_vars

\* one column of a character type with a length, CHAR without one, the text
\* types that become varchar, without a length and with one, or an integer;
\* conversion to citext on and off
CiCols ==
    { [PlainCol EXCEPT !.category = x[1], !.length = x[2], !.inPk = TRUE] :
        x \in { <<cat_VARCHAR, 2>>, <<cat_VARCHAR, 10>>, <<cat_CHAR, 2>>, <<cat_CHAR, -1>>,
                <<cat_TINYTEXT, -1>>, <<cat_TEXT, -1>>, <<cat_TINYTEXT, 10>>, <<cat_TEXT, 10>>,
                <<cat_INT, -1>> } }

InitCi == InitOneOf(CiCols, TypeOpts)

SpecCi == InitCi /\ [][Next]_vars

\* one column, boolean, integer or timestamp, with each kind of default value
\* and the default-is-null flag set or not
str_NULL == <<"N", "U", "L", "L">>
str_quoted_a == <<"'", "a", "'">>
str_now == <<"n", "o", "w", "(", ")">>

DefaultValues ==
    { NoneStr, str_1, str_0, str_TRUE, str_FALSE, str_CURRENT_TIMESTAMP, str_quoted_a,
      str_CTS_ON_UPDATE, str_NULL, str_now }

DefCols ==
    { [PlainCol EXCEPT !.category = k[1], !.isUserType = k[2], !.userTypeName = k[3],
                       !.defaultValue = dv, !.defaultValueIsNull = dvn, !.inPk = TRUE] :
        k \in { <<cat_TINYINT, TRUE, "BOOL">>, <<cat_INT, FALSE, "">>,
                <<cat_SMALLINT, FALSE, "">> },
        dv \in DefaultValues, dvn \in {0, 1} }

InitDef == InitOneOf(DefCols, {DefaultOpts})

SpecDef == InitDef /\ [][Next]_vars

\* one column of an integer type, a type that is none, or a boolean, with no
\* flag, UNSIGNED once or twice, another flag or both, auto-increment or not
FlagCols ==
    { [PlainCol EXCEPT !.category = k, !.flags = f, !.autoIncrement = a, !.inPk = TRUE] :
        k \in {cat_SMALLINT, cat_INT, cat_BIGINT, cat_DECIMAL, cat_DATE},
        f \in { <<>>, <<"UNSIGNED">>, <<"ZEROFILL">>, <<"ZEROFILL", "UNSIGNED">>,
                <<"UNSIGNED", "BINARY">>, <<"UNSIGNED", "UNSIGNED">> },
        a \in {0, 1} }
    \cup { [PlainCol EXCEPT !.category = cat_TINYINT, !.isUserType = TRUE, !.userTypeName = "BOOL",
                            !.flags = f, !.inPk = TRUE] : f \in { <<"UNSIGNED">>, <<"BINARY">> } }

InitFlag == InitOneOf(FlagCols, {DefaultOpts})

SpecFlag == InitFlag /\ [][Next]_vars

\* columns with a UNIQUE or INDEX index of their own or in the index their
\* table's columns share, foreign-key members or not, ascending or
\* descending; foreign-key index suppression on and off
FilterCols ==
    { [PlainCol EXCEPT !.idxType = x[1], !.idxName = str_x \o str_idx, !.fkKind = x[2],
                       !.descend = x[3]] :
        x \in { <<TYPE_INDEX, "none", 1>>, <<TYPE_UNIQUE, "none", 0>>,
                <<TYPE_INDEX, "ok", 0>>, <<TYPE_UNIQUE, "ok", 1>> } }
    \cup { [PlainCol EXCEPT !.sharedIdx = x[1], !.fkKind = x[2], !.descend = x[3]] :
        x \in { <<TYPE_INDEX, "none", 0>>, <<TYPE_INDEX, "ok", 1>>, <<TYPE_UNIQUE, "ok", 0>> } }

FilterOpts == { [DefaultOpts EXCEPT !.nofkidx = b] : b \in BOOLEAN }

InitFilter == InitWith(FilterCols, FilterOpts, {NoTriggerConfig})

SpecFilter == InitFilter /\ [][Next]_vars

\* one column with each combination of a length, a precision and a scale that
\* are unset, zero or set, signed and unsigned, and the types that take a
\* length or a scale, alone or followed by foreign-key members
LpsValues == {-1, 0, 2}

LpsCols ==
    { [PlainCol EXCEPT !.length = l, !.precision = p, !.scale = sc, !.flags = f, !.inPk = TRUE] :
        l \in LpsValues, p \in LpsValues, sc \in LpsValues, f \in {<<>>, <<"UNSIGNED">>} }
    \cup { [PlainCol EXCEPT !.category = x[1], !.length = x[2], !.precision = x[3],
                            !.scale = x[4], !.inPk = TRUE] :
             x \in { <<cat_VARCHAR, 2, -1, -1>>, <<cat_DECIMAL, -1, 2, 0>>,
                     <<cat_DECIMAL, -1, 2, 2>>, <<cat_TEXT, 2, -1, -1>> } }

InitLps ==
    /\ \E v \in LpsCols : \E k \in 0..(MaxCols - 1) : \E B \in SUBSET (1..k) :
          /\ Cardinality(B) < MaxTables
          /\ tables = MkSchema(<<v>> \o [n \in 1..k |-> RefCol], B)
          /\ WellFormed(MkSchema(<<v>> \o [n \in 1..k |-> RefCol], B))
    /\ given = tables
    /\ opts = DefaultOpts
    /\ triggerConfig = NoTriggerConfig
    /\ InitRun
    /\ DirectCall

SpecLps == InitLps /\ [][Next]_vars

\* columns of the primary key that are or are not auto-increment, foreign-key
\* members or not
AiCols ==
    { [PlainCol EXCEPT !.autoIncrement = a, !.fkKind = k, !.inPk = TRUE] :
        a \in {0, 1}, k \in {"none", "ok"} }

InitAi == InitWith(AiCols, {DefaultOpts}, {NoTriggerConfig})

SpecAi == InitAi /\ [][Next]_vars

\* foreign keys of every kind: to the first table or to no table, mandatory
\* or optional, of cardinality many or one, over one column or the columns
\* of the table that share it, with and without referencedTable; in and out
\* of the primary key, on columns that are and are not not-null
RelCols ==
    { [PlainCol EXCEPT !.fkKind = x[1], !.inPk = x[2], !.isNotNull = x[3]] :
        x \in { <<"ok", TRUE, 1>>, <<"ok", FALSE, 0>>, <<"optional", FALSE, 1>>,
                <<"noref", FALSE, 0>>, <<"noref_one", TRUE, 0>>, <<"noref_multi", FALSE, 0>>,
                <<"dangling", FALSE, 0>>, <<"one", TRUE, 0>>, <<"multi", FALSE, 0>>,
                <<"none", TRUE, 0>> } }

InitRel == InitWith(RelCols, {DefaultOpts}, {NoTriggerConfig})

SpecRel == InitRel /\ [][Next]_vars

\* columns with a trigger: one the configuration knows, one it knows under
\* its lower-case name, one it does not know, one without a name;
\* configurations with entries, with entries that refer to another option or
\* hold a bare percent sign, with an empty Triggers section and without that
\* section
str_TRG == <<"T", "R", "G">>
str_schema == <<"s", "c", "h", "e", "m", "a">>
str_public == <<"p", "u", "b", "l", "i", "c">>
str_schema_f == <<"%", "(", "S", "c", "h", "e", "m", "a", ")", "s", ".", "f", "(", ")">>
str_f_percent == <<"f", "(", "%", "s", ")">>

InterpolatedCfg ==
    [present |-> TRUE, hasSection |-> TRUE,
     entries |-> <<[name |-> str_trg, signature |-> str_schema_f],
                   [name |-> str_schema, signature |-> str_public],
                   [name |-> str_other, signature |-> str_f_percent]>>]

NoSectionCfg == [present |-> TRUE, hasSection |-> FALSE, entries |-> <<>>]
EmptySectionCfg == [present |-> TRUE, hasSection |-> TRUE, entries |-> <<>>]

TrigCols ==
    { [PlainCol EXCEPT !.inPk = TRUE, !.trigEvent = x[1], !.trigName = x[2]] :
        x \in { <<"UPDATE", str_trg>>, <<"DELETE", str_TRG>>, <<"INSERT", str_other>>,
                <<"INSERT", NoneStr>> } }
    \cup {RefCol}

InitTrig ==
    InitWith(TrigCols, {DefaultOpts},
             {NoTriggerConfig, Cfg, InterpolatedCfg, EmptySectionCfg, NoSectionCfg})

SpecTrig == InitTrig /\ [][Next]_vars

(***************************************************************************)
(* The program around createDbm: __main__, Main.convert, Main.convertModel *)
(* and Main.mergeDbm.  The source file, the trigger file and the merge     *)
(* files are described by what reading them gives.                         *)
(***************************************************************************)
\* lines 737-773: what opening and validating the source file raises, "" if nothing
Validate(mwb) ==
    IF mwb = "notzip" THEN "BadZipFile"
    ELSE IF mwb \in {"noinner", "badformat", "baddoctype"} THEN "InvalidFileFormatException"
    ELSE IF mwb = "nomodels" THEN "AssertionError"
    ELSE ""

\* lines 903-911: ConfigParser.read skips a file it cannot open or read, so
\* these leave a configuration without sections; a file that is no
\* configuration raises a parse error, which is no IOError
ReadTriggerFile(kind) ==
    IF kind = "none" THEN [err |-> "", cfg |-> NoTriggerConfig]
    ELSE IF kind \in {"missing", "unreadable", "nosection"}
    THEN [err |-> "", cfg |-> NoSectionCfg]
    ELSE IF kind = "emptysection"
    THEN [err |-> "", cfg |-> EmptySectionCfg]
    ELSE IF kind = "garbage"
    THEN [err |-> "MissingSectionHeaderError", cfg |-> NoTriggerConfig]
    ELSE [err |-> "", cfg |-> Cfg]

\* line 775: convert hands nocitext and triggerConfig to convertModel and
\* leaves nofkidx at convertModel's default
ConvertModelArgs(a) == [nocitext |-> a.nocitext, nofkidx |-> FALSE]

\* lines 853-854: the arguments of createDbm (the diagram of the source file
\* has no layers)
CreateDbmOpts(m) ==
    [prependTableNameInIdx |-> TRUE, nocitext |-> m.nocitext, nofkidx |-> m.nofkidx,
     layers |-> <<>>]

\* lines 842-851, with Diagram.__init__ (dbo.py lines 300-310): what the
\* diagrams of the model raise, "" if nothing
DiagramsError(diagrams) ==
    IF ~diagrams.present THEN "TypeError"
    ELSE IF diagrams.elements = <<>> THEN "AssertionError"
    ELSE IF \E n \in 1..Len(diagrams.elements) :
                LET d == diagrams.elements[n]
                IN  \/ d.structName # "workbench.physical.Diagram"
                    \/ ~d.connections \/ ~d.figures \/ ~d.layers
    THEN "AssertionError"
    ELSE IF ~diagrams.elements[1].name THEN "KeyError"
    ELSE ""

\* lines 810-851: what convertModel has when it calls createDbm, or what ends
\* it before: the elements of the model are looked up and tested in this
\* order, and every run builds its types and its Table objects from them
ConvertModelResult(m) ==
    LET Failed(e) == [err |-> e, tables |-> <<>>]
    IN  IF ~m.catalog THEN Failed("AssertionError")
        ELSE IF ~m.schema THEN Failed("AssertionError")
        ELSE IF ~m.schemaName THEN Failed("AttributeError")
        ELSE IF ~m.simpleDatatypes.present THEN Failed("AssertionError")
        ELSE IF ~m.userDatatypes.present THEN Failed("AssertionError")
        ELSE With(Types([err |-> "", types |-> <<>>], m.simpleDatatypes.elements, FALSE, 1),
                  LAMBDA simple :
          With(Types(simple, m.userDatatypes.elements, TRUE, 1),
                  LAMBDA types :
            IF types.err # "" THEN Failed(types.err)
            ELSE IF ~m.tables.present THEN Failed("TypeError")
            ELSE IF m.tables.elements = <<>> THEN Failed("AssertionError")
            ELSE With(BuildTables([err |-> "", tables |-> <<>>], m.tables.elements, types.types, 1),
                      LAMBDA built :
                        IF built.err # "" THEN Failed(built.err)
                        ELSE IF DiagramsError(m.diagrams) # "" THEN Failed(DiagramsError(m.diagrams))
                        ELSE [err |-> "", tables |-> built.tables])))

\* line 862: the place of the first trigger among the children, 0 if there is none
FirstTrigger(orig) ==
    IF \E n \in 1..Len(orig) : orig[n].tag = "trigger"
    THEN CHOOSE n \in 1..Len(orig) :
            orig[n].tag = "trigger" /\ \A m \in 1..(n - 1) : orig[m].tag # "trigger"
    ELSE 0

\* firstTriggerTag.addprevious(child): child becomes the sibling just before place ft
AddPrevious(orig, ft, child) == SubSeq(orig, 1, ft - 1) \o <<child>> \o SubSeq(orig, ft, Len(orig))

\* mutant: every child goes to the end
MergeChildren_Append(orig, frag, n, ft) ==
    orig \o SelectSeq(frag, LAMBDA e : e.tag \in {"function", "aggregate"})

\* lines 863-868: the children of the fragment, in order; ft follows the trigger
RECURSIVE MergeChildren(_, _, _, _)
MergeChildren(orig, frag, n, ft) ==
    IF n > Len(frag) THEN orig
    ELSE IF frag[n].tag \in {"function", "aggregate"}
    THEN IF ft # 0
         THEN MergeChildren(AddPrevious(orig, ft, frag[n]), frag, n + 1, ft + 1)
         ELSE MergeChildren(Append(orig, frag[n]), frag, n + 1, ft)
    ELSE MergeChildren(orig, frag, n + 1, ft)

\* Main.mergeDbm
MergeDbm(orig, frag) == MergeChildren(orig, frag, 1, FirstTrigger(orig))

\* an exception that nothing catches ends the process
Uncaught(e) == err' = e /\ stage' = "exit" /\ exitCode' = "1"

\* lines 899-911: the command line is parsed, the trigger file is read
ReadTriggers ==
    /\ stage = "main"
    /\ LET r == ReadTriggerFile(args.triggers)
       IN  /\ triggerConfig' = r.cfg
           /\ IF r.err # "" THEN Uncaught(r.err)
              ELSE stage' = "convert" /\ UNCHANGED <<err, exitCode>>
    /\ UNCHANGED <<args, outFile, mi, run, prev, hashSeed, given, tables, opts, pc, ti, ci, ii, ri, enums,
                   domains, root, tnodes, customidxs, colConstraints, aiApplied, fks, indexes,
                   updateTsFunctions, updateTsTriggers, triggers>>

\* lines 733-773: the source file is opened and validated
OpenSource ==
    /\ stage = "convert"
    /\ IF Validate(args.mwb) # "" THEN Uncaught(Validate(args.mwb))
       ELSE stage' = "model" /\ UNCHANGED <<err, exitCode>>
    /\ UNCHANGED <<args, outFile, mi, run, prev, hashSeed, given, tables, opts, triggerConfig, pc, ti, ci, ii,
                   ri, enums, domains, root, tnodes, customidxs, colConstraints, aiApplied, fks,
                   indexes, updateTsFunctions, updateTsTriggers, triggers>>

\* lines 775 and 791-854: the schema graph is built and createDbm is called,
\* or an assertion or a constructor ends the run
ConvertModel ==
    /\ stage = "model"
    /\ \E r \in {ConvertModelResult(args.model)} :
           IF r.err # ""
           THEN Uncaught(r.err) /\ UNCHANGED <<given, tables, opts, pc, mi>>
           ELSE /\ tables' = r.tables
                /\ given' = r.tables
                /\ opts' = CreateDbmOpts(ConvertModelArgs(args))
                /\ pc' = "start"
                /\ stage' = "synth"
                /\ mi' = 1
                /\ UNCHANGED <<err, exitCode>>
    /\ UNCHANGED <<args, outFile, run, prev, hashSeed, triggerConfig, ti, ci, ii, ri,
                   enums, domains, root, tnodes, customidxs, colConstraints, aiApplied, fks,
                   indexes, updateTsFunctions, updateTsTriggers, triggers>>

\* an exception of createDbm leaves convertModel and convert
SynthFailed ==
    /\ stage = "synth"
    /\ err # ""
    /\ Uncaught(err)
    /\ UNCHANGED <<args, outFile, mi, run, prev, hashSeed, given, tables, opts, triggerConfig, pc, ti, ci, ii,
                   ri, enums, domains, root, tnodes, customidxs, colConstraints, aiApplied, fks,
                   indexes, updateTsFunctions, updateTsTriggers, triggers>>

\* lines 778-781: one merge file is loaded and merged
Merge ==
    /\ stage = "synth" /\ pc = "done" /\ err = ""
    /\ mi <= Len(args.merge)
    /\ IF ~args.merge[mi].readable
       THEN Uncaught("OSError") /\ UNCHANGED <<root, mi>>
       ELSE /\ root' = MergeDbm(root, args.merge[mi].children)
            /\ mi' = mi + 1
            /\ UNCHANGED <<err, stage, exitCode>>
    /\ UNCHANGED <<args, outFile, run, prev, hashSeed, given, tables, opts, triggerConfig, pc, ti, ci, ii, ri,
                   enums, domains, tnodes, customidxs, colConstraints, aiApplied, fks, indexes,
                   updateTsFunctions, updateTsTriggers, triggers>>

\* mutant: the output is written before the merge files are dealt with
MergesDone_Skipped == TRUE

\* lines 778-781: the loop over the merge files has ended
MergesDone == mi > Len(args.merge)

\* lines 783-789: the output file is opened and the tree is written
Save ==
    /\ stage = "synth" /\ pc = "done" /\ err = ""
    /\ MergesDone
    /\ outFile' = [written |-> TRUE, root |-> root, tables |-> tnodes]
    /\ stage' = "exit"
    /\ exitCode' = "0"
    /\ UNCHANGED <<args, mi, run, prev, hashSeed, given, tables, opts, triggerConfig, pc, err, ti, ci, ii, ri,
                   enums, domains, root, tnodes, customidxs, colConstraints, aiApplied, fks,
                   indexes, updateTsFunctions, updateTsTriggers, triggers>>

\* the program is started once more with the same command line on the same
\* files, in a process with a hash seed of its own; nothing of the memory of
\* the ended process is read before it is assigned anew
Again ==
    /\ stage = "exit"
    /\ run = "first"
    /\ run' = "second"
    /\ prev' = [outFile |-> outFile, exitCode |-> exitCode, err |-> err, hashSeed |-> hashSeed]
    /\ hashSeed' \in HashSeeds
    /\ stage' = "main"
    /\ pc' = "idle"
    /\ err' = ""
    /\ outFile' = NoOutput
    /\ exitCode' = ""
    /\ UNCHANGED <<args, mi, given, tables, opts, triggerConfig, ti, ci, ii, ri, enums, domains,
                   root, tnodes, customidxs, colConstraints, aiApplied, fks, indexes,
                   updateTsFunctions, updateTsTriggers, triggers>>

NextProgram ==
    \/ ReadTriggers
    \/ OpenSource
    \/ ConvertModel
    \/ Start
    \/ BeginTable
    \/ SkipFkColumn
    \/ ProcessColumn
    \/ EndColumns
    \/ ProcessIndex
    \/ EndTable
    \/ Relationship
    \/ Finish
    \/ SynthFailed
    \/ Merge
    \/ Save
    \/ Again

\* the program's inputs: a foreign-key member with an INDEX of its own, an
\* unsigned column with a precision and a trigger, a timestamp with ON UPDATE
str_f1 == <<"f", "1">>
str_a1 == <<"a", "1">>
str_f3 == <<"f", "3">>

ProgCols ==
    { [PlainCol EXCEPT !.fkKind = "ok", !.inPk = TRUE,
                       !.idxType = TYPE_INDEX, !.idxName = str_x \o str_idx],
      [PlainCol EXCEPT !.precision = 2, !.flags = <<"UNSIGNED">>, !.inPk = TRUE,
                       !.trigEvent = "UPDATE", !.trigName = str_TRG],
      [PlainCol EXCEPT !.category = cat_TIMESTAMP, !.defaultValue = str_CTS_ON_UPDATE,
                       !.inPk = TRUE] }

\* merge files by what loading them gives: the root's children, or an error
MergeFile(children) == [readable |-> TRUE, children |-> children]
MissingMergeFile == [readable |-> FALSE, children |-> <<>>]
Frag1 ==
    MergeFile(<< [tag |-> "function", name |-> str_f1], [tag |-> "table", name |-> str_t],
                 [tag |-> "aggregate", name |-> str_a1] >>)
Frag2 == MergeFile(<< [tag |-> "trigger", name |-> str_trg] >>)
Frag3 == MergeFile(<< [tag |-> "function", name |-> str_f3] >>)

\* a readable source file, no trigger file, no merge file, no flag; the
\* model of the source file is put in its place with the schema
BaseArgs ==
    [mwb |-> "ok", triggers |-> "none", merge |-> <<>>, nocitext |-> FALSE, nofkidx |-> FALSE,
     model |-> SourceModel(<<>>)]

\* the command lines: each departs from BaseArgs in one respect, or gives a
\* trigger file together with merge files
ProgArgs ==
    { [BaseArgs EXCEPT !.mwb = k] :
        k \in {"ok", "notzip", "noinner", "badformat", "baddoctype", "nomodels"} }
    \cup { [BaseArgs EXCEPT !.triggers = k] :
        k \in {"ok", "missing", "unreadable", "nosection", "emptysection", "garbage"} }
    \cup { [BaseArgs EXCEPT !.merge = m] :
        m \in { <<Frag1>>, <<Frag2>>, <<Frag1, Frag3>>, <<MissingMergeFile>>,
                <<Frag3, MissingMergeFile>> } }
    \cup { [BaseArgs EXCEPT !.triggers = "ok", !.merge = m] : m \in { <<Frag1>>, <<Frag3, Frag1>> } }
    \cup { [BaseArgs EXCEPT !.nocitext = TRUE], [BaseArgs EXCEPT !.nofkidx = TRUE] }

\* the schemas of the program's inputs, within the bounds
ProgSchemas ==
    UNION { { MkSchema(cols, B) : B \in { b \in SUBSET (1..(Len(cols) - 1)) : Cardinality(b) < MaxTables } } :
                cols \in SeqsUpTo(ProgCols, MaxCols) }

\* a model with one table of two columns: the first is the primary key and
\* listed by a foreign key, the second is a user type BOOL with an index
GoodModel ==
    SourceModel(MkSchema(<< [PlainCol EXCEPT !.fkKind = "ok", !.inPk = TRUE],
                            [PlainCol EXCEPT !.category = cat_TINYINT, !.isUserType = TRUE,
                                             !.userTypeName = "BOOL", !.idxType = TYPE_UNIQUE,
                                             !.idxName = str_x \o str_idx] >>, {}))

\* models that convertModel or a constructor of dbo.py does not accept: each
\* departs from GoodModel in one element
BrokenModels ==
    LET m == GoodModel
        simple == m.simpleDatatypes.elements
        user == m.userDatatypes.elements
        table == m.tables.elements[1]
        OneTable(t) == [m EXCEPT !.tables = Present(<<t>>)]
    IN  { [m EXCEPT !.catalog = FALSE], [m EXCEPT !.schema = FALSE], [m EXCEPT !.schemaName = FALSE],
          [m EXCEPT !.simpleDatatypes = Absent], [m EXCEPT !.userDatatypes = Absent],
          [m EXCEPT !.simpleDatatypes = Present(simple \o simple)],
          [m EXCEPT !.simpleDatatypes = Present(<<[simple[1] EXCEPT !.tag = "value"]>>)],
          [m EXCEPT !.simpleDatatypes = Present(<<[simple[1] EXCEPT !.type = NoneStr]>>)],
          [m EXCEPT !.userDatatypes = Present(<<[user[1] EXCEPT !.tag = "link"]>>)],
          [m EXCEPT !.userDatatypes = Present(<<[user[1] EXCEPT !.actualType = FALSE]>>)],
          [m EXCEPT !.userDatatypes = Present(<<[user[1] EXCEPT !.type = NoneStr]>>)],
          [m EXCEPT !.userDatatypes = Present(<<[user[1] EXCEPT !.id = simple[1].id]>>)],
          [m EXCEPT !.userDatatypes = Present(<<>>)],
          [m EXCEPT !.tables = Absent], [m EXCEPT !.tables = Present(<<>>)],
          [m EXCEPT !.diagrams = Absent], [m EXCEPT !.diagrams = Present(<<>>)],
          [m EXCEPT !.diagrams = Present(<<[DiagramElement EXCEPT !.structName = "model.Diagram"]>>)],
          [m EXCEPT !.diagrams = Present(<<DiagramElement, [DiagramElement EXCEPT !.figures = FALSE]>>)],
          [m EXCEPT !.diagrams = Present(<<[DiagramElement EXCEPT !.connections = FALSE]>>)],
          [m EXCEPT !.diagrams = Present(<<[DiagramElement EXCEPT !.layers = FALSE]>>)],
          [m EXCEPT !.diagrams = Present(<<[DiagramElement EXCEPT !.name = FALSE]>>)],
          OneTable([table EXCEPT !.columns = <<>>]),
          OneTable([table EXCEPT !.columns[2].userType = NoneStr]),
          OneTable([table EXCEPT !.columns[1].userType = user[1].id]),
          OneTable([table EXCEPT !.columns[1].simpleType = cat_TEXT]),
          OneTable([table EXCEPT !.indices = <<>>]),
          OneTable([table EXCEPT !.indices[2].indexType = "FULLTEXT"]),
          OneTable([table EXCEPT !.indices[2].isPrimary = 1]),
          OneTable([table EXCEPT !.indices[1].isPrimary = 0]),
          OneTable([table EXCEPT !.indices[2].columns = <<>>]),
          OneTable([table EXCEPT !.indices[2].columns[1].col = 9]),
          OneTable([table EXCEPT !.fks[1].columns = <<1, 1>>]),
          OneTable([table EXCEPT !.fks = @ \o @]),
          OneTable([table EXCEPT !.fks[1].columns = <<2, 9>>]) }

\* the state when the program is started
InitConvert ==
    /\ given = <<>>
    /\ \/ \E a \in ProgArgs : \E schema \in ProgSchemas :
              args = [a EXCEPT !.model = SourceModel(schema)]
       \/ \E m \in BrokenModels \cup {GoodModel} : args = [BaseArgs EXCEPT !.model = m]
    /\ stage = "main" /\ outFile = NoOutput /\ exitCode = "" /\ mi = 0
    /\ run = "first" /\ prev = NoPrev /\ hashSeed = 0
    /\ tables = <<>> /\ opts = DefaultOpts /\ triggerConfig = NoTriggerConfig
    /\ pc = "idle" /\ err = ""
    /\ ti = 0 /\ ci = 0 /\ ii = 0 /\ ri = 0
    /\ enums = {} /\ domains = {}
    /\ root = <<>> /\ tnodes = <<>>
    /\ customidxs = <<>> /\ colConstraints = <<>> /\ aiApplied = FALSE
    /\ fks = <<>> /\ indexes = <<>>
    /\ updateTsFunctions = <<>> /\ updateTsTriggers = <<>> /\ triggers = <<>>

\* the program from the command line to its exit, run twice on the same input
SpecConvert == InitConvert /\ [][NextProgram]_vars

(***************************************************************************)
(* Building the schema graph of one table (dbo.py): Table.__init__ makes   *)
(* the columns, then the indices, then the foreign keys.  The source       *)
(* element is described by the number of its columns, whose identifiers    *)
(* are their positions, by the type links of the columns and the types of  *)
(* the catalog, and by the column identifiers that each index and each     *)
(* foreign key lists.  The table under construction is tables[1].          *)
(***************************************************************************)
\* Table.__init__, dbo.py lines 247-255, with Column.__init__: the columns
\* element must not be empty, the columns are made one by one until the type
\* links of one are not accepted, and the indices element must not be empty
NewColumns ==
    /\ pc = "newcolumns" /\ err = ""
    /\ IF given.ncols = 0
       THEN Abort("AssertionError") /\ UNCHANGED <<tables, ii>>
       ELSE LET bad  == { c \in 1..given.ncols : ColumnTypeError(given.links[c], given.types) # "" }
                stop == IF bad = {} THEN 0 ELSE CHOOSE c \in bad : \A d \in bad : c <= d
            IN  /\ tables' = << [ columns |-> [c \in 1..(IF stop = 0 THEN given.ncols ELSE stop - 1) |->
                                                  [id |-> c, fk |-> 0, indices |-> <<>>]],
                                  indices |-> <<>>, fks |-> <<>> ] >>
                /\ IF stop # 0
                   THEN Abort(ColumnTypeError(given.links[stop], given.types)) /\ UNCHANGED ii
                   ELSE IF given.indices = <<>>
                   THEN Abort("AssertionError") /\ UNCHANGED ii
                   ELSE ii' = 1 /\ pc' = "newindex" /\ UNCHANGED err
    /\ UNCHANGED <<driver, given, opts, triggerConfig, ti, ci, ri, enums, domains, root, tnodes,
                   customidxs, colConstraints, aiApplied, fks, indexes, updateTsFunctions,
                   updateTsTriggers, triggers>>

\* Table.__init__, dbo.py lines 257-259, with Index.__init__: the next index,
\* or on to the foreign keys
NewIndex ==
    /\ pc = "newindex" /\ err = ""
    /\ IF ii > Len(given.indices)
       THEN pc' = "newfk" /\ ri' = 1 /\ UNCHANGED <<tables, err, ii>>
       ELSE IF CheckIndex(given.indices[ii]) # ""
       THEN Abort(CheckIndex(given.indices[ii])) /\ UNCHANGED <<tables, ii, ri>>
       ELSE LET st == IndexColumns([err |-> "", cols |-> tables[1].columns, members |-> <<>>],
                                   given.indices[ii].columns, 1, ii)
            IN  /\ tables' = [tables EXCEPT
                                ![1].columns = st.cols,
                                ![1].indices = IF st.err # "" THEN @
                                               ELSE Append(@, [ indexType |-> given.indices[ii].indexType,
                                                                columns |-> st.members ])]
                /\ err' = st.err
                /\ ii' = IF st.err # "" THEN ii ELSE ii + 1
                /\ UNCHANGED <<pc, ri>>
    /\ UNCHANGED <<driver, given, opts, triggerConfig, ti, ci, enums, domains, root, tnodes,
                   customidxs, colConstraints, aiApplied, fks, indexes, updateTsFunctions,
                   updateTsTriggers, triggers>>

\* Table.__init__, dbo.py lines 263-265: the next foreign key, or the table is built
NewForeignKey ==
    /\ pc = "newfk" /\ err = ""
    /\ IF ri > Len(given.fks)
       THEN pc' = "built" /\ UNCHANGED <<tables, err, ri>>
       ELSE LET st == FkColumns([err |-> "", cols |-> tables[1].columns, owned |-> <<>>,
                                 primary |-> FALSE],
                                tables[1].indices, given.fks[ri], 1, ri)
            IN  /\ tables' = [tables EXCEPT
                                ![1].columns = st.cols,
                                ![1].fks = IF st.err # "" THEN @
                                           ELSE Append(@, [columns |-> st.owned,
                                                           primary |-> st.primary])]
                /\ err' = st.err
                /\ ri' = IF st.err # "" THEN ri ELSE ri + 1
                /\ pc' = pc
    /\ UNCHANGED <<driver, given, opts, triggerConfig, ti, ci, ii, enums, domains, root, tnodes,
                   customidxs, colConstraints, aiApplied, fks, indexes, updateTsFunctions,
                   updateTsTriggers, triggers>>

NextBuild ==
    \/ NewColumns
    \/ NewIndex
    \/ NewForeignKey

\* the indices of the source tables: a PRIMARY index, an INDEX or both over
\* the first two columns, an index that lists a column that is not there
\* (identifier 9), and indices that Index.__init__ does not accept
BuildIndex(type, cols) ==
    [indexType |-> type, isPrimary |-> IF type = TYPE_PRIMARY THEN 1 ELSE 0, columns |-> cols]

BuildIndices ==
    { << BuildIndex(TYPE_PRIMARY, <<1>>) >>,
      << BuildIndex(TYPE_INDEX, <<2>>) >>,
      << BuildIndex(TYPE_INDEX, <<1>>), BuildIndex(TYPE_PRIMARY, <<2, 1>>) >>,
      << BuildIndex(TYPE_UNIQUE, <<1>>), BuildIndex(TYPE_PRIMARY, <<2>>) >>,
      << BuildIndex(TYPE_PRIMARY, <<9>>) >> }

BrokenIndices ==
    { <<>>,
      << BuildIndex("FULLTEXT", <<1>>) >>,
      << BuildIndex(TYPE_PRIMARY, <<1>>), [BuildIndex(TYPE_UNIQUE, <<2>>) EXCEPT !.isPrimary = 1] >>,
      << [BuildIndex(TYPE_PRIMARY, <<1>>) EXCEPT !.isPrimary = 0] >>,
      << BuildIndex(TYPE_INDEX, <<1>>), BuildIndex(TYPE_INDEX, <<>>) >> }

\* the foreign keys list one column, two, the same twice, or a column that
\* is not there
BuildFkLists ==
    { <<1>>, <<2>>, <<1, 2>>, <<2, 1>>, <<1, 1>>, <<9>>, <<2, 9>> }

\* the types of the catalog and the links of a column to them: to a simple
\* type, to a user type, to none, to both, to a type that is not there
BuildTypes ==
    << [id |-> cat_INT, type |-> cat_INT, isUserType |-> FALSE, name |-> ""],
       [id |-> <<"u">>, type |-> cat_TINYINT, isUserType |-> TRUE, name |-> "BOOL"] >>

SimpleLink == [simpleType |-> cat_INT, userType |-> NoneStr]

BrokenLinks ==
    { [simpleType |-> NoneStr, userType |-> NoneStr],
      [simpleType |-> cat_INT, userType |-> <<"u">>],
      [simpleType |-> cat_TEXT, userType |-> NoneStr],
      [simpleType |-> NoneStr, userType |-> <<"x">>] }

\* source tables of up to MaxCols columns: the columns link to their types
\* and the indices are accepted, with any of the foreign keys; or the table
\* has no column, or one column has other links, or the indices are not
\* accepted
BuildSources ==
    LET links(n) == [c \in 1..n |-> IF c = 2 THEN [simpleType |-> NoneStr, userType |-> <<"u">>]
                                    ELSE SimpleLink]
    IN  { [ncols |-> x[1], links |-> links(x[1]), types |-> BuildTypes, indices |-> x[2], fks |-> x[3]] :
            x \in (2..MaxCols) \X BuildIndices \X (SeqsUpTo(BuildFkLists, 2) \cup {<<>>}) }
        \cup { [ncols |-> x[1], links |-> links(x[1]), types |-> BuildTypes, indices |-> x[2], fks |-> x[3]] :
            x \in {0, 2} \X (BrokenIndices \cup {<< BuildIndex(TYPE_PRIMARY, <<1>>) >>})
                         \X {<<>>, << <<1>> >>} }
        \cup { [ncols |-> 2, links |-> [links(2) EXCEPT ![x[1]] = x[2]], types |-> BuildTypes,
                indices |-> x[3], fks |-> <<>>] :
            x \in {1, 2} \X BrokenLinks \X {<<>>, << BuildIndex(TYPE_PRIMARY, <<1>>) >>} }

InitBuild ==
    /\ given \in BuildSources
    /\ stage = "build" /\ args = NoArgs /\ outFile = NoOutput /\ exitCode = "" /\ mi = 0
    /\ run = "first" /\ prev = NoPrev /\ hashSeed = 0
    /\ tables = <<>> /\ opts = DefaultOpts /\ triggerConfig = NoTriggerConfig
    /\ pc = "newcolumns" /\ err = ""
    /\ ti = 0 /\ ci = 0 /\ ii = 0 /\ ri = 0
    /\ enums = {} /\ domains = {}
    /\ root = <<>> /\ tnodes = <<>>
    /\ customidxs = <<>> /\ colConstraints = <<>> /\ aiApplied = FALSE
    /\ fks = <<>> /\ indexes = <<>>
    /\ updateTsFunctions = <<>> /\ updateTsTriggers = <<>> /\ triggers = <<>>

SpecBuild == InitBuild /\ [][NextBuild]_vars

(***************************************************************************)
(* Reading the output                                                      *)
(***************************************************************************)
\* the column loop of table t is over and its hint is in place
TableDone(t) == t \in 1..Len(tnodes) /\ t < ti

\* index i of table t has been dealt with
IndexDone(t, i) == t < ti \/ (t = ti /\ pc = "index" /\ i < ii)

\* the body of the column loop has run, to its end or to an exception, for column i of table t
ColumnReached(t, i) ==
    /\ t \in 1..Len(tnodes)
    /\ \E n \in 1..Len(tnodes[t].children) :
          tnodes[t].children[n].tag = "column" /\ tnodes[t].children[n].src = i

\* the run was ended by an exception in the body of the loop for column i of table t
RaisedAtColumn(t, i) == err # "" /\ pc = "column" /\ ti = t /\ ci = i

\* table t holds a column element of this name
HasColumnElement(t, name) ==
    \E n \in 1..Len(tnodes[t].children) :
        tnodes[t].children[n].tag = "column" /\ tnodes[t].children[n].attrs["name"] = name

\* the objects of table t's customidxs element for columns
HintObjects(t) ==
    { o \in UNION { {tnodes[t].children[n].objects[m] :
                       m \in 1..Len(tnodes[t].children[n].objects)} :
                    n \in { n \in 1..Len(tnodes[t].children) :
                              /\ tnodes[t].children[n].tag = "customidxs"
                              /\ tnodes[t].children[n].objectType = "column" } } : TRUE }

\* the column element that the loop body made for column i of table t
ColumnEl(t, i) ==
    tnodes[t].children[CHOOSE n \in 1..Len(tnodes[t].children) :
                          tnodes[t].children[n].tag = "column" /\ tnodes[t].children[n].src = i]

\* the attributes of its type element
TypeAttrs(t, i) == ColumnEl(t, i).children[1].attrs

\* the places of the domain elements of this name in the root
DomainElements(name) ==
    { n \in 1..Len(root) : root[n].tag = "domain" /\ root[n].name = name }

\* the places of the enum types of this name in the root
UsertypeElements(name) ==
    { n \in 1..Len(root) : root[n].tag = "usertype" /\ root[n].name = name }

\* the index name that createDbm starts from: the source name, with the table
\* name in front when that is asked for and the name does not hold it
OrigIdxName(t, i) ==
    (IF Find(given[t].indices[i].name, given[t].name) = -1 /\ opts.prependTableNameInIdx
     THEN given[t].name \o str_us ELSE <<>>) \o given[t].indices[i].name

\* the columns, as <<table, position>>, that are no foreign-key members
OwnColumns ==
    { x \in UNION { {<<t, i>> : i \in 1..Len(given[t].columns)} : t \in 1..Len(given) } :
        given[x[1]].columns[x[2]].fk = 0 }

(***************************************************************************)
(* Claims                                                                  *)
(***************************************************************************)

\* C1: in a finished table, a foreign-key member at 0-based position i has no
\* column element of its name and an entry (name, i) in the table's column
\* hint; any other column has a column element and no hint entry at i.
C1_FkExclusion ==
    \A t \in 1..Len(given) : TableDone(t) =>
        \A i \in 1..Len(given[t].columns) :
            LET col == given[t].columns[i]
            IN  IF col.fk # 0
                THEN /\ ~HasColumnElement(t, col.name)
                     /\ [index |-> i - 1, name |-> col.name] \in HintObjects(t)
                ELSE /\ HasColumnElement(t, col.name)
                     /\ \A o \in HintObjects(t) : o.index # i - 1

\* a finished table whose second column is a foreign-key member, recorded in
\* the hint at index 1, behind a first column that got its element
C1_Witness ==
    \E t \in 1..Len(given) :
        /\ TableDone(t)
        /\ Len(given[t].columns) >= 2
        /\ given[t].columns[1].fk = 0
        /\ given[t].columns[2].fk # 0
        /\ HasColumnElement(t, given[t].columns[1].name)
        /\ [index |-> 1, name |-> given[t].columns[2].name] \in HintObjects(t)

\* C2: after a run that completes, every column is a column element of its
\* table or a foreign-key member whose foreign key gave exactly one
\* relationship with the column's name as src-col-pattern.
C2_NoColumnLost ==
    pc = "done" =>
        \A t \in 1..Len(given) : \A i \in 1..Len(given[t].columns) :
            LET col == given[t].columns[i]
            IN  \/ HasColumnElement(t, col.name)
                \/ /\ col.fk # 0
                   /\ Cardinality({ n \in 1..Len(root) :
                                      /\ root[n].tag = "relationship"
                                      /\ root[n].src = [t |-> t, k |-> col.fk]
                                      /\ root[n].srcColPattern = col.name }) = 1

\* C3: a column outside any foreign key with length < 0, precision p > 0 and
\* scale < 0 is converted without an exception, with or without UNSIGNED: its
\* type is public.<name>, <name> = [u]<base type><p>, and a domain <name>
\* exists with that base type and the check VALUE >= minVal AND VALUE <= maxVal
\* (maxVal p nines, minVal 0 when UNSIGNED, else minus p nines).
C3_PrecisionDomain ==
    \A x \in OwnColumns :
        LET t     == x[1]
            i     == x[2]
            col   == given[t].columns[i]
            uns   == InList("UNSIGNED", col.flags)
            base  == IF col.category = cat_INT THEN str_integer ELSE Lower(col.category)
            name  == (IF uns THEN str_u ELSE <<>>) \o base \o IntToStr(col.precision)
            nines == Repeat("9", col.precision)
            expr  == str_VALUE_ge \o (IF uns THEN str_0 ELSE str_minus \o nines)
                     \o str_AND_VALUE_le \o nines
        IN  (col.length < 0 /\ col.precision > 0 /\ col.scale < 0 /\ ColumnReached(t, i)) =>
                /\ ~RaisedAtColumn(t, i)
                /\ TypeAttrs(t, i)["name"] = str_public_dot \o name
                /\ \E n \in DomainElements(name) :
                      root[n].baseType = base /\ root[n].expr = expr

\* C4: at any point of a run, no two domain elements of the output have the
\* same name; once the run has started, usmallint, uinteger and ubigint are
\* there exactly once each; and there is exactly one domain element for the
\* (type, precision, unsigned) combination of every column the loop has
\* dealt with, however many columns share it.
C4_DomainMemo ==
    /\ \A n, m \in 1..Len(root) :
          (root[n].tag = "domain" /\ root[m].tag = "domain" /\ root[n].name = root[m].name)
              => n = m
    /\ pc # "start" =>
          \A b \in {str_smallint, str_integer, str_bigint} :
              Cardinality(DomainElements(str_u \o b)) = 1
    /\ \A x \in OwnColumns :
          LET col  == given[x[1]].columns[x[2]]
              base == IF col.category = cat_INT THEN str_integer ELSE Lower(col.category)
              name == (IF InList("UNSIGNED", col.flags) THEN str_u ELSE <<>>)
                      \o base \o IntToStr(col.precision)
          IN  (col.length < 0 /\ col.precision > 0 /\ col.scale < 0
                 /\ ColumnReached(x[1], x[2])) =>
                  Cardinality(DomainElements(name)) = 1

\* two columns of two tables with the same category, precision and UNSIGNED
\* flag, both converted in a run that completed, and one domain for both
C4_Witness ==
    /\ pc = "done"
    /\ \E x, y \in OwnColumns :
          LET a == given[x[1]].columns[x[2]]
              b == given[y[1]].columns[y[2]]
          IN  /\ x[1] # y[1]
              /\ a.precision > 0 /\ a.precision = b.precision /\ a.category = b.category
              /\ InList("UNSIGNED", a.flags) /\ InList("UNSIGNED", b.flags)
              /\ TypeAttrs(x[1], x[2])["name"] = TypeAttrs(y[1], y[2])["name"]
              /\ Cardinality(DomainElements(Drop(TypeAttrs(x[1], x[2])["name"],
                                                 Len(str_public_dot)))) = 1

\* C5: every ENUM column outside any foreign key gets an enum type of its
\* own without an exception: its type is public.<n> for exactly one usertype
\* element <n>, no two usertype elements have the same name, and no two ENUM
\* columns share a type.
C5_EnumsDistinct ==
    /\ \A n, m \in 1..Len(root) :
          (root[n].tag = "usertype" /\ root[m].tag = "usertype"
              /\ root[n].name = root[m].name) => n = m
    /\ \A x \in OwnColumns :
          (given[x[1]].columns[x[2]].category = cat_ENUM /\ ColumnReached(x[1], x[2])) =>
              /\ ~RaisedAtColumn(x[1], x[2])
              /\ StartsWith(TypeAttrs(x[1], x[2])["name"], str_public_dot \o str_enum_)
              /\ Cardinality(UsertypeElements(Drop(TypeAttrs(x[1], x[2])["name"],
                                                   Len(str_public_dot)))) = 1
              /\ \A y \in OwnColumns :
                    (y # x /\ given[y[1]].columns[y[2]].category = cat_ENUM
                       /\ ColumnReached(y[1], y[2]) /\ ~RaisedAtColumn(y[1], y[2])) =>
                        TypeAttrs(y[1], y[2])["name"] # TypeAttrs(x[1], x[2])["name"]

\* C6: every index element has a name of at most 63 characters; a name longer
\* than that came out as its first 59 characters and _idx, 63 in all, and
\* ended in _idx before; any other name came out unchanged; and a run never
\* gets past an index whose name is longer than 63 characters and does not
\* end in _idx.
C6_IndexNames ==
    /\ \A n \in 1..Len(indexes) :
          LET orig == OrigIdxName(indexes[n].src[1], indexes[n].src[2])
              name == indexes[n].name
          IN  /\ Len(name) <= 63
              /\ IF Len(orig) > 63
                 THEN /\ EndsWith(orig, str_idx)
                      /\ Len(name) = 63
                      /\ name = SubSeq(orig, 1, 59) \o str_idx
                 ELSE name = orig
    /\ \A n \in 1..Len(root) : root[n].tag = "index" => Len(root[n].name) <= 63
    /\ pc = "done" => SelectSeq(root, LAMBDA e : e.tag = "index") = indexes
    /\ \A t \in 1..Len(given) : \A i \in 1..Len(given[t].indices) :
          (given[t].indices[i].indexType # TYPE_PRIMARY
              /\ Len(OrigIdxName(t, i)) > 63 /\ ~EndsWith(OrigIdxName(t, i), str_idx)) =>
                  (~IndexDone(t, i) /\ pc # "done")

\* a run that completed with an index element of 63 characters made from a
\* longer name
C6_Witness ==
    /\ pc = "done"
    /\ \E n \in 1..Len(root) :
          /\ root[n].tag = "index"
          /\ Len(OrigIdxName(root[n].src[1], root[n].src[2])) > 63
          /\ Len(root[n].name) = 63

\* C7: a PRIMARY index with a member that is no foreign-key member gives its
\* table exactly one pk-constr constraint <table>_pk over exactly those
\* members, in index order, and no index element; a PRIMARY index of
\* foreign-key members only gives neither.
C7_PrimaryKey ==
    \A t \in 1..Len(given) : \A i \in 1..Len(given[t].indices) :
        (given[t].indices[i].indexType = TYPE_PRIMARY /\ IndexDone(t, i)) =>
            LET index == given[t].indices[i]
                own   == SelectSeq(index.columns, LAMBDA ic : given[t].columns[ic.col].fk = 0)
                names == [m \in 1..Len(own) |-> given[t].columns[own[m].col].name]
                cons  == { n \in 1..Len(tnodes[t].children) :
                             /\ tnodes[t].children[n].tag = "constraint"
                             /\ tnodes[t].children[n].type = "pk-constr"
                             /\ tnodes[t].children[n].src = i }
            IN  /\ \A n \in 1..Len(indexes) : indexes[n].src # <<t, i>>
                /\ IF own # <<>>
                   THEN /\ Cardinality(cons) = 1
                        /\ \A n \in cons :
                              /\ tnodes[t].children[n].name = given[t].name \o str_pk
                              /\ tnodes[t].children[n].columns = JoinComma(names)
                   ELSE cons = {}

\* a primary key over a foreign-key member and another column: the constraint
\* lists the other column alone
C7_Witness ==
    \E t \in 1..Len(given) : \E i \in 1..Len(given[t].indices) :
        /\ given[t].indices[i].indexType = TYPE_PRIMARY
        /\ IndexDone(t, i)
        /\ \E m \in 1..Len(given[t].indices[i].columns) :
              given[t].columns[given[t].indices[i].columns[m].col].fk # 0
        /\ \E n \in 1..Len(tnodes[t].children) :
              /\ tnodes[t].children[n].tag = "constraint"
              /\ tnodes[t].children[n].type = "pk-constr"
              /\ \E m \in 1..Len(given[t].indices[i].columns) :
                    tnodes[t].children[n].columns =
                        given[t].columns[given[t].indices[i].columns[m].col].name

\* C8: after a run that completed, there are as many function elements as
\* distinct names of columns outside any foreign key whose default is
\* CURRENT_TIMESTAMP ON UPDATE CURRENT_TIMESTAMP, one update_<col>_on_update
\* per name; each such column has one trigger <table>_t_update_<col> on its
\* table (as many triggers of that name as the table has such columns of that
\* name), BEFORE UPDATE, calling public.update_<col>_on_update(), and no other
\* such trigger exists; the column's default is CURRENT_TIMESTAMP.
C8_OnUpdate ==
    pc = "done" =>
        LET cols  == { x \in OwnColumns :
                         given[x[1]].columns[x[2]].defaultValue = str_CTS_ON_UPDATE }
            names == { given[x[1]].columns[x[2]].name : x \in cols }
            funcs == { n \in 1..Len(root) : root[n].tag = "function" }
            trigs == { n \in 1..Len(root) : root[n].tag = "trigger" }
        IN  /\ Cardinality(funcs) = Cardinality(names)
            /\ \A nm \in names :
                  Cardinality({ n \in funcs : root[n].name = str_update_ \o nm \o str_on_update
                                              /\ root[n].colName = nm }) = 1
            /\ Cardinality(trigs) = Cardinality(cols)
            /\ \A x \in cols :
                  LET table == given[x[1]]
                      col   == table.columns[x[2]]
                      mine  == { n \in trigs :
                                   /\ root[n].name = table.name \o str_t_update_ \o col.name
                                   /\ root[n].table = str_public_dot \o table.name }
                      same  == { y \in cols : /\ given[y[1]].name = table.name
                                               /\ given[y[1]].columns[y[2]].name = col.name }
                  IN  /\ Cardinality(mine) = Cardinality(same)
                      /\ \A n \in mine :
                            /\ root[n].firingType = "BEFORE"
                            /\ root[n].updEvent = "true"
                            /\ root[n].insEvent = "false"
                            /\ root[n].delEvent = "false"
                            /\ root[n].signature = str_public_dot \o str_update_ \o col.name
                                                   \o str_on_update \o str_parens
                      /\ ColumnEl(x[1], x[2]).attrs["default-value"] = str_CURRENT_TIMESTAMP

\* two tables with a column updated_at each: one function, two triggers
C8_Witness ==
    /\ pc = "done"
    /\ \E x, y \in OwnColumns :
          /\ x[1] # y[1]
          /\ given[x[1]].columns[x[2]].name = str_updated_at
          /\ given[y[1]].columns[y[2]].name = str_updated_at
          /\ given[x[1]].columns[x[2]].defaultValue = str_CTS_ON_UPDATE
          /\ given[y[1]].columns[y[2]].defaultValue = str_CTS_ON_UPDATE
    /\ Cardinality({ n \in 1..Len(root) : root[n].tag = "function" }) = 1
    /\ Cardinality({ n \in 1..Len(root) : root[n].tag = "trigger" }) = 2

\* the place of an element in the documented order of the output
Rank(e) ==
    IF e.tag \in {"domain", "usertype", "table"} THEN 1
    ELSE IF e.tag = "relationship" THEN 2
    ELSE IF e.tag = "index" THEN 3
    ELSE IF e.tag = "function" THEN 4
    ELSE IF e.tag = "trigger" THEN (IF e.src = "updateTs" THEN 5 ELSE 6)
    ELSE 0

\* C9: among the children of the root, domains, enum types and tables come
\* before relationships, these before indexes, these before the functions of
\* the ON UPDATE emulation, these before its triggers, and these before the
\* configured triggers; and the domain or enum type that a column's type
\* names comes before the table that holds the column.
C9_EmissionOrder ==
    /\ \A n, m \in 1..Len(root) :
          (Rank(root[n]) > 0 /\ Rank(root[n]) < Rank(root[m])) => n < m
    /\ \A m \in 1..Len(root) : root[m].tag = "table" =>
          \A k \in 1..Len(tnodes[root[m].ref].children) :
              LET e == tnodes[root[m].ref].children[k]
              IN  (e.tag = "column" /\ e.children # <<>>
                     /\ StartsWith(e.children[1].attrs["name"], str_public_dot)) =>
                      \E n \in 1..(m - 1) :
                          /\ root[n].tag \in {"domain", "usertype"}
                          /\ root[n].name = Drop(e.children[1].attrs["name"], Len(str_public_dot))

\* a completed run whose output holds a table, a relationship, an index, a
\* function, a trigger of the emulation and a configured trigger
C9_Witness ==
    /\ pc = "done"
    /\ \A r \in 1..6 : \E n \in 1..Len(root) : Rank(root[n]) = r

\* the type names of the mapping table
str_json == <<"j", "s", "o", "n">>
str_decimal == <<"d", "e", "c", "i", "m", "a", "l">>
str_date == <<"d", "a", "t", "e">>

\* the documented mapping from source category to destination base type
DocumentedTypes ==
    { <<cat_SMALLINT, str_smallint>>, <<cat_JSON, str_json>>, <<cat_DECIMAL, str_decimal>>,
      <<cat_VARCHAR, str_varchar>>, <<cat_BIGINT, str_bigint>>, <<cat_DATE, str_date>>,
      <<cat_CHAR, str_char>>, <<cat_INT, str_integer>>, <<cat_FLOAT, str_real>>,
      <<cat_DOUBLE, str_double_precision>>, <<cat_TIMESTAMP, str_timestamptz>>,
      <<cat_DATETIME, str_timestamptz>>, <<cat_TIMESTAMP_F, str_timestamptz>>,
      <<cat_DATETIME_F, str_timestamptz>>, <<cat_TIME, str_timetz>>,
      <<cat_TINYTEXT, str_varchar>>, <<cat_TEXT, str_varchar>>,
      <<cat_MEDIUMTEXT, str_text>>, <<cat_LONGTEXT, str_text>> }

DocumentedType(col) ==
    IF col.category = cat_TINYINT
    THEN IF col.isUserType /\ col.userTypeName \in {"UBOOL", "BOOLEAN", "BOOL"}
         THEN str_boolean ELSE str_smallint
    ELSE IF \E p \in DocumentedTypes : p[1] = col.category
    THEN (CHOOSE p \in DocumentedTypes : p[1] = col.category)[2]
    ELSE str_smallint

\* C10: a column outside any foreign key and without flags, length or
\* precision is converted without an exception and its type is the
\* documented one for its category (citext in place of varchar and char
\* unless citext is turned off): the timestamp and time types carry
\* with-timezone, TINYTEXT and TEXT the lengths 255 and 65535, an ENUM gets
\* public.enum_<column> with a usertype element of that name, and a category
\* outside the table gets smallint.
C10_TypeMapping ==
    \A x \in OwnColumns :
        LET t   == x[1]
            i   == x[2]
            col == given[t].columns[i]
        IN  (col.flags = <<>> /\ col.length < 0 /\ col.precision < 0 /\ col.scale < 0
               /\ ColumnReached(t, i)) =>
                /\ ~RaisedAtColumn(t, i)
                /\ IF col.category = cat_ENUM
                   THEN /\ TypeAttrs(t, i)["name"] = str_public_dot \o str_enum_ \o col.name
                        /\ Cardinality(UsertypeElements(str_enum_ \o col.name)) = 1
                   ELSE LET base == DocumentedType(col)
                        IN  /\ TypeAttrs(t, i)["name"] =
                                  IF ~opts.nocitext /\ base \in {str_varchar, str_char}
                                  THEN str_citext ELSE base
                            /\ base \in {str_timestamptz, str_timetz} =>
                                  /\ "with-timezone" \in DOMAIN TypeAttrs(t, i)
                                  /\ TypeAttrs(t, i)["with-timezone"] = "true"
                            /\ (opts.nocitext /\ col.category = cat_TINYTEXT) =>
                                  TypeAttrs(t, i)["length"] = str_255
                            /\ (opts.nocitext /\ col.category = cat_TEXT) =>
                                  TypeAttrs(t, i)["length"] = str_65535

\* a TINYINT column of the user type BOOL that came out as boolean
C10_Witness ==
    \E x \in OwnColumns :
        /\ given[x[1]].columns[x[2]].category = cat_TINYINT
        /\ given[x[1]].columns[x[2]].isUserType
        /\ given[x[1]].columns[x[2]].userTypeName = "BOOL"
        /\ ColumnReached(x[1], x[2])
        /\ TypeAttrs(x[1], x[2])["name"] = str_boolean

\* C11: two runs of the program on the same input with the same options,
\* each in a process with a hash seed of its own and each building its own
\* schema graph, end alike: the second run writes the output file the first
\* one wrote, the root children and the table elements in the same order
\* with the same content, or ends with the same exception and writes none.
C11_Determinism ==
    (run = "second" /\ stage = "exit") =>
        /\ outFile = prev.outFile
        /\ exitCode = prev.exitCode
        /\ err = prev.err
        /\ outFile.written => given = ConvertModelResult(args.model).tables

\* the two runs had different hash seeds and both wrote an output with a
\* precision domain, whose making changed the run's schema graph, and with
\* merged elements
C11_Witness ==
    /\ run = "second" /\ stage = "exit"
    /\ hashSeed # prev.hashSeed
    /\ outFile.written /\ prev.outFile.written
    /\ \E t \in 1..Len(given) : \E i \in 1..Len(given[t].columns) :
          /\ given[t].columns[i].precision = 2
          /\ tables[t].columns[i].flags # given[t].columns[i].flags
    /\ \E n \in 1..Len(outFile.root) : outFile.root[n].tag = "aggregate"
    /\ \E n \in 1..Len(outFile.root) : outFile.root[n].tag = "trigger"

\* index i of table t is an INDEX whose member columns are all foreign-key members
FkOnlyIndex(t, i) ==
    /\ given[t].indices[i].indexType = TYPE_INDEX
    /\ \A m \in 1..Len(given[t].indices[i].columns) :
          given[t].columns[given[t].indices[i].columns[m].col].fk # 0

\* C12: when the program is run with --nofkidx, the output it writes holds no
\* index element for an INDEX whose member columns are all foreign-key members.
C12_NofkidxHonoured ==
    (args.nofkidx /\ outFile.written) =>
        \A n \in 1..Len(outFile.root) :
            outFile.root[n].tag = "index" =>
                ~FkOnlyIndex(outFile.root[n].src[1], outFile.root[n].src[2])

\* C13: the output file is written only by a run that validated its input,
\* built the schema graph, completed the synthesis and merged every merge
\* file without an exception; a run that an exception ended wrote none, and
\* a run on a valid file whose schema graph cannot be built ends with the
\* exception of the construction, a non-zero exit status and no output.
C13_OutputLast ==
    /\ outFile.written =>
          /\ err = "" /\ stage = "exit" /\ exitCode = "0"
          /\ Validate(args.mwb) = ""
          /\ ConvertModelResult(args.model).err = ""
          /\ given = ConvertModelResult(args.model).tables /\ Len(tables) = Len(given)
          /\ pc = "done"
          /\ mi = Len(args.merge) + 1
    /\ err # "" => ~outFile.written
    /\ (/\ stage = "exit"
        /\ ReadTriggerFile(args.triggers).err = "" /\ Validate(args.mwb) = ""
        /\ ConvertModelResult(args.model).err # "") =>
          /\ err = ConvertModelResult(args.model).err /\ exitCode = "1"
          /\ ~outFile.written

\* the input was valid, the second foreign key of the table lists a column
\* that another foreign key owns, so the constructor of the schema graph has
\* ended the run: there is no output
C13_Witness ==
    /\ stage = "exit" /\ err = "AssertionError" /\ exitCode = "1"
    /\ Validate(args.mwb) = ""
    /\ Len(args.model.tables.elements) = 1
    /\ Len(args.model.tables.elements[1].fks) = 2
    /\ args.model.tables.elements[1].fks[1].columns = args.model.tables.elements[1].fks[2].columns
    /\ ConvertModelResult(args.model).err = "AssertionError"
    /\ ~outFile.written

\* the function and aggregate elements among the children of a fragment, in order
Mergeable(children) == SelectSeq(children, LAMBDA e : e.tag \in {"function", "aggregate"})

\* C14: merging a fragment puts its function and aggregate elements, in their
\* order, immediately before the first trigger element of the synthesized
\* root, or at the end when the root has no trigger element; nothing else of
\* the fragment is merged and the root's own elements keep their order.
C14_Merge ==
    [][(stage = "synth" /\ pc = "done" /\ mi' = mi + 1) =>
          LET moved == Mergeable(args.merge[mi].children)
              ft == FirstTrigger(root)
          IN  root' = IF ft # 0
                      THEN SubSeq(root, 1, ft - 1) \o moved \o SubSeq(root, ft, Len(root))
                      ELSE root \o moved]_vars

\* two fragments were merged into a root with triggers: the function of the
\* first, then the function and the aggregate of the second, then the first
\* trigger; the table element of the second fragment is not in the root
C14_Witness ==
    /\ stage = "synth" /\ pc = "done" /\ mi = 3 /\ args.merge = <<Frag3, Frag1>>
    /\ \E n \in 1..(Len(root) - 3) :
          /\ root[n] = Frag3.children[1]
          /\ root[n + 1] = Frag1.children[1]
          /\ root[n + 2] = Frag1.children[3]
          /\ root[n + 3].tag = "trigger"
          /\ \A k \in 1..n : root[k].tag # "trigger"
    /\ \A n \in 1..Len(root) : root[n] # Frag1.children[2]

\* C15: when the trigger file named on the command line is missing or cannot
\* be read, the program ends with a non-zero exit status and convert is never
\* called.
C15_TriggerFileFatal ==
    args.triggers \in {"missing", "unreadable"} =>
        \/ stage = "main"
        \/ stage = "exit" /\ exitCode = "1" /\ ~outFile.written

\* the configuration has an entry for this trigger name
HasEntry(cfg, name) ==
    cfg.hasSection /\ \E n \in 1..Len(cfg.entries) : cfg.entries[n].name = Lower(name)

\* C16: with a trigger configuration, a source trigger whose name has no
\* entry, also when the configuration has no Triggers section or an empty
\* one, does not end the run: the run is never ended by an exception at the
\* triggers of a table that has such a trigger.
C16_UnknownTriggerSkipped ==
    \A t \in 1..Len(tables) : \A n \in 1..Len(tables[t].triggers) :
        (triggerConfig.present /\ ~HasEntry(triggerConfig, tables[t].triggers[n].name)) =>
            ~(err # "" /\ pc = "index" /\ ti = t /\ ii > Len(tables[t].indices))

\* the relationship elements of the root made for the foreign key at place p of the sorted list
RelsOf(p) ==
    { n \in 1..Len(root) : root[n].tag = "relationship" /\ root[n].src = SortedFks(fks)[p] }

\* the loop over the foreign keys has gone past place p
FkPassed(p) == pc = "done" \/ (pc = "rels" /\ ri > p)

\* the run was ended by an exception at place p of the loop over the foreign keys
RaisedAtFk(p) == pc = "rels" /\ err # "" /\ ri = p

\* C17: in the loop over the foreign keys, one without referencedTable gives
\* no relationship and raises nothing; one with referencedTable that is not
\* many, refers to no table or does not own exactly one column ends the run;
\* any other gives exactly one rel1n relationship from the referenced table
\* to the owning table on the column's name, required iff the foreign key is
\* mandatory and the column not-null, identifier iff the foreign key is primary.
C17_Relationships ==
    pc \in {"rels", "done"} =>
        \A p \in 1..Len(fks) :
            LET ref == SortedFks(fks)[p]
                table == given[ref.t]
                fk == table.fks[ref.k]
                bad == \/ fk.many = 0
                       \/ \A r \in 1..Len(given) : given[r].id # fk.referencedTable
                       \/ Len(fk.columns) # 1
            IN  IF ~fk.hasReferencedTable
                THEN ~RaisedAtFk(p) /\ RelsOf(p) = {}
                ELSE IF bad
                THEN ~FkPassed(p) /\ RelsOf(p) = {}
                ELSE /\ ~RaisedAtFk(p)
                     /\ ~FkPassed(p) => RelsOf(p) = {}
                     /\ FkPassed(p) =>
                          /\ Cardinality(RelsOf(p)) = 1
                          /\ \A n \in RelsOf(p) :
                                LET scol == table.columns[fk.columns[1]]
                                IN  /\ root[n].type = "rel1n"
                                    /\ root[n].name = fk.name
                                    /\ \E r \in 1..Len(given) :
                                          /\ given[r].id = fk.referencedTable
                                          /\ root[n].srcTable = str_public_dot \o given[r].name
                                    /\ root[n].dstTable = str_public_dot \o table.name
                                    /\ root[n].srcColPattern = scol.name
                                    /\ root[n].srcRequired = "true"
                                          <=> (fk.mandatory = 1 /\ scol.isNotNull = 1)
                                    /\ root[n].srcRequired \in {"true", "false"}
                                    /\ root[n].identifier = "true" <=> fk.primary
                                    /\ root[n].identifier \in {"true", "false"}

\* a foreign key without referencedTable whose cardinality is one was passed,
\* an optional one on a not-null column gave a relationship that is not
\* required, and the run was ended at a foreign key that refers to no table
C17_Witness ==
    /\ pc = "rels" /\ ri = 3 /\ err = "AssertionError"
    /\ Len(fks) = 3
    /\ ~given[SortedFks(fks)[1].t].fks[SortedFks(fks)[1].k].hasReferencedTable
    /\ given[SortedFks(fks)[1].t].fks[SortedFks(fks)[1].k].many = 0
    /\ RelsOf(1) = {}
    /\ given[SortedFks(fks)[2].t].fks[SortedFks(fks)[2].k].mandatory = 0
    /\ \E n \in RelsOf(2) : root[n].srcRequired = "false"
    /\ \A r \in 1..Len(given) :
          given[r].id # given[SortedFks(fks)[3].t].fks[SortedFks(fks)[3].k].referencedTable

\* the auto-increment columns of table t
AiColumns(t) == { i \in 1..Len(given[t].columns) : given[t].columns[i].autoIncrement # 0 }

\* the loop over the columns of table t has come to its end
ColumnLoopOver(t) == ti > t \/ (ti = t /\ pc = "index")

\* C18: a table with more than one auto-increment column ends the run,
\* whichever of its columns are auto-increment, foreign-key members among
\* them: the loop over its columns never comes to its end.
C18_OneAutoIncrement ==
    \A t \in 1..Len(given) :
        Cardinality(AiColumns(t)) > 1 => ~ColumnLoopOver(t)

\* C19: the length, precision and scale of a column that is no foreign-key
\* member take one of three shapes; a length alone becomes the type's
\* length, a precision without scale gives a domain as the type, a precision
\* with a scale becomes length and precision of the type, and every other
\* combination in which one of the three is set ends the run at that column.
C19_LengthPrecisionScale ==
    \A x \in OwnColumns :
        LET t   == x[1]
            i   == x[2]
            col == given[t].columns[i]
        IN  ColumnReached(t, i) =>
                IF col.length > 0 /\ col.precision < 0 /\ col.scale < 0
                THEN /\ ~RaisedAtColumn(t, i)
                     /\ TypeAttrs(t, i)["length"] = IntToStr(col.length)
                ELSE IF col.precision > 0 /\ col.scale < 0 /\ col.length < 0
                THEN /\ ~RaisedAtColumn(t, i)
                     /\ \E n \in 1..Len(root) :
                           /\ root[n].tag = "domain"
                           /\ EndsWith(root[n].name, IntToStr(col.precision))
                           /\ TypeAttrs(t, i)["name"] = str_public_dot \o root[n].name
                ELSE IF col.precision > 0 /\ col.scale >= 0 /\ col.length < 0
                THEN /\ ~RaisedAtColumn(t, i)
                     /\ TypeAttrs(t, i)["length"] = IntToStr(col.precision)
                     /\ TypeAttrs(t, i)["precision"] = IntToStr(col.scale)
                ELSE (col.length > 0 \/ col.precision > 0 \/ col.scale > 0) => RaisedAtColumn(t, i)

\* the index elements made for index i of table t
IndexElements(t, i) == { n \in 1..Len(indexes) : indexes[n].src = <<t, i>> }

\* index i of table t has a member column that is no foreign-key member
HasOwnMember(t, i) ==
    \E m \in 1..Len(given[t].indices[i].columns) :
        given[t].columns[given[t].indices[i].columns[m].col].fk = 0

\* C20: a UNIQUE or INDEX index gets an index element iff one of its member
\* columns is no foreign-key member, or it is UNIQUE, or it is INDEX and
\* foreign-key index suppression is off; the element lists all member
\* columns in order, foreign-key members too, asc-order false exactly for the
\* descending ones, and unique is taken from the index's unique attribute.
C20_IndexFilter ==
    \A t \in 1..Len(given) : \A i \in 1..Len(given[t].indices) :
        LET index == given[t].indices[i]
            keep == \/ HasOwnMember(t, i)
                    \/ index.indexType = TYPE_UNIQUE
                    \/ index.indexType = TYPE_INDEX /\ ~opts.nofkidx
        IN  (index.indexType \in {TYPE_UNIQUE, TYPE_INDEX} /\ IndexDone(t, i)) =>
                /\ Cardinality(IndexElements(t, i)) = IF keep THEN 1 ELSE 0
                /\ \A n \in IndexElements(t, i) :
                      /\ Len(indexes[n].elements) = Len(index.columns)
                      /\ \A m \in 1..Len(index.columns) :
                            /\ indexes[n].elements[m].column
                                  = given[t].columns[index.columns[m].col].name
                            /\ indexes[n].elements[m].ascOrder
                                  = IF index.columns[m].descend = 1 THEN "false" ELSE "true"
                      /\ indexes[n].unique = IF index.unique = 1 THEN "true" ELSE "false"

\* with suppression on, a table's shared INDEX over a foreign-key member that
\* descends and a column that is none got its element with both columns, and
\* the INDEX of a foreign-key member alone got none
C20_Witness ==
    /\ pc = "done" /\ opts.nofkidx
    /\ \E t \in 1..Len(given) : \E i, j \in 1..Len(given[t].indices) :
          /\ given[t].indices[i].indexType = TYPE_INDEX
          /\ Len(given[t].indices[i].columns) = 2
          /\ HasOwnMember(t, i)
          /\ \E m \in 1..2 : given[t].columns[given[t].indices[i].columns[m].col].fk # 0
          /\ \E n \in IndexElements(t, i) :
                Len(indexes[n].elements) = 2
                /\ \E m \in 1..2 : indexes[n].elements[m].ascOrder = "false"
          /\ FkOnlyIndex(t, j)
          /\ IndexElements(t, j) = {}

\* the places of the relationship elements in the root
RelPlaces == { n \in 1..Len(root) : root[n].tag = "relationship" }

\* the foreign key a relationship element was made from
RelFk(n) == given[root[n].src.t].fks[root[n].src.k]

\* C21: relationship elements come into the root only when every table has
\* been processed; a relationship of a primary foreign key precedes every
\* relationship of one that is not, and within each of the two groups the
\* relationships are in table order, then in the order of the table's
\* foreign keys.
C21_RelationshipOrder ==
    /\ RelPlaces # {} => (pc \in {"rels", "done"} /\ ti > Len(tables) /\ Len(tnodes) = Len(tables))
    /\ \A n, m \in RelPlaces :
          n < m =>
              /\ RelFk(m).primary => RelFk(n).primary
              /\ RelFk(n).primary = RelFk(m).primary =>
                    \/ root[n].src.t < root[m].src.t
                    \/ root[n].src.t = root[m].src.t /\ root[n].src.k < root[m].src.k

\* the relationship of the third foreign key of a table, which is primary,
\* stands before the relationships of the first and the second, which are
\* not and keep their order
C21_Witness ==
    /\ pc = "done"
    /\ \E n \in RelPlaces :
          /\ RelFk(n).primary /\ root[n].src = [t |-> 1, k |-> 3]
          /\ n + 2 \in RelPlaces
          /\ ~RelFk(n + 1).primary /\ root[n + 1].src = [t |-> 1, k |-> 1]
          /\ ~RelFk(n + 2).primary /\ root[n + 2].src = [t |-> 1, k |-> 2]

\* the check constraints of table t, those of the table that is being
\* processed before they join its element included
CheckConstraints(t) ==
    SelectSeq(tnodes[t].children, LAMBDA e : e.tag = "constraint" /\ e.type = "ck-constr")
    \o (IF ti = t /\ pc = "column" THEN colConstraints ELSE <<>>)

\* the check constraints of this name of table t
ConstraintsNamed(t, name) ==
    { n \in 1..Len(CheckConstraints(t)) : CheckConstraints(t)[n].name = name }

\* the destination type of the categories of the families of flags and defaults
PlainType(col) ==
    IF col.category = cat_INT THEN str_integer
    ELSE IF col.category = cat_TINYINT
    THEN (IF col.isUserType /\ col.userTypeName \in {"UBOOL", "BOOLEAN", "BOOL"}
          THEN str_boolean ELSE str_smallint)
    ELSE Lower(col.category)

\* C22: a column that is no foreign-key member and has the flag UNSIGNED gets
\* the type public.u<type> if its type is smallint, integer or bigint and it
\* is not auto-increment, keeps its type if it is auto-increment, and keeps
\* its type and gets exactly one check constraint <table>_<col>_ge0 with the
\* expression <col> >= 0 if its type is none of these; any other flag changes
\* nothing and raises nothing.
C22_Flags ==
    \A x \in OwnColumns :
        LET t    == x[1]
            i    == x[2]
            col  == given[t].columns[i]
            type == PlainType(col)
            int  == type \in {str_smallint, str_integer, str_bigint}
            uns  == InList("UNSIGNED", col.flags)
            ge0  == ConstraintsNamed(t, given[t].name \o str_us \o col.name \o str_us_ge0)
        IN  ColumnReached(t, i) =>
                /\ ~RaisedAtColumn(t, i)
                /\ TypeAttrs(t, i)["name"] =
                      IF uns /\ int /\ col.autoIncrement = 0 THEN str_public_dot \o str_u \o type
                      ELSE type
                /\ (uns /\ ~int) => Cardinality(ge0) = 1
                /\ ~uns => CheckConstraints(t) = <<>>
                /\ \A n \in ge0 : CheckConstraints(t)[n].expr = col.name \o str_sp_ge_0

\* C23: a column that is no foreign-key member and has a default value gets
\* it as its default-value attribute: 1 and 0 as TRUE and FALSE when its type
\* is boolean, CURRENT_TIMESTAMP ON UPDATE CURRENT_TIMESTAMP as
\* CURRENT_TIMESTAMP, everything else as it is, and nothing is raised; a
\* column without default value gets no such attribute and nothing is raised,
\* whether its default-is-null flag is set or not.
C23_DefaultValue ==
    \A x \in OwnColumns :
        LET t    == x[1]
            i    == x[2]
            col  == given[t].columns[i]
            dv   == col.defaultValue
            bool == PlainType(col) = str_boolean
            want == IF dv = str_1 /\ bool THEN str_TRUE
                    ELSE IF dv = str_0 /\ bool THEN str_FALSE
                    ELSE IF dv = str_CTS_ON_UPDATE THEN str_CURRENT_TIMESTAMP
                    ELSE dv
        IN  ColumnReached(t, i) =>
                /\ ~RaisedAtColumn(t, i)
                /\ IF dv = NoneStr
                   THEN "default-value" \notin DOMAIN ColumnEl(t, i).attrs
                   ELSE /\ "default-value" \in DOMAIN ColumnEl(t, i).attrs
                        /\ ColumnEl(t, i).attrs["default-value"] = want

\* C24: with conversion to citext on, every column that is no foreign-key
\* member and whose type is varchar or char (TINYTEXT and TEXT are varchar)
\* gets the type citext without length attribute, and its table exactly one
\* check constraint <table>_<col>_len with length(<col>) <= N for varchar and
\* length(<col>) = N for char, N being the column's length; with conversion
\* off it keeps varchar or char with its length attribute and there is no such
\* constraint.
C24_Citext ==
    \A x \in OwnColumns :
        LET t    == x[1]
            i    == x[2]
            col  == given[t].columns[i]
            type == IF col.category \in {cat_VARCHAR, cat_TINYTEXT, cat_TEXT} THEN str_varchar
                    ELSE IF col.category = cat_CHAR THEN str_char
                    ELSE NoneStr
            len  == ConstraintsNamed(t, given[t].name \o str_us \o col.name \o str_len)
            op   == IF type = str_char THEN str_eq ELSE str_le
        IN  (ColumnReached(t, i) /\ type # NoneStr) =>
                /\ ~RaisedAtColumn(t, i)
                /\ IF ~opts.nocitext
                   THEN /\ TypeAttrs(t, i)["name"] = str_citext
                        /\ "length" \notin DOMAIN TypeAttrs(t, i)
                        /\ Cardinality(len) = 1
                        /\ \A n \in len :
                              CheckConstraints(t)[n].expr =
                                  str_length_open \o col.name \o str_close_sp \o op \o str_sp
                                  \o IntToStr(col.length)
                   ELSE /\ len = {}
                        /\ TypeAttrs(t, i)["name"] = type
                        /\ "length" \in DOMAIN TypeAttrs(t, i)

\* the places <<k, m>> where the source's foreign keys list column identifier id
Listings(id) ==
    { x \in UNION { {<<k, m>> : m \in 1..Len(given.fks[k])} : k \in 1..Len(given.fks) } :
        given.fks[x[1]][x[2]] = id }

\* the source lists, in a foreign key, a column twice or one that is not there
BadFkListing ==
    \/ \E c \in 1..given.ncols : Cardinality(Listings(c)) > 1
    \/ \E k \in 1..Len(given.fks) : \E m \in 1..Len(given.fks[k]) : given.fks[k][m] \notin 1..given.ncols

\* the source's indices of type PRIMARY list column identifier id
InSourcePrimary(id) ==
    \E i \in 1..Len(given.indices) :
        /\ given.indices[i].indexType = TYPE_PRIMARY
        /\ \E m \in 1..Len(given.indices[i].columns) : given.indices[i].columns[m] = id

\* C25: while a table is built, a column's back reference names the one
\* foreign key that lists it, and a foreign key that has been built owns the
\* columns it lists and is primary iff one of them is a member of a PRIMARY
\* index of the table; a table whose foreign keys list a column twice, two of
\* them the same column, or a column that is not there, is never built.
C25_GraphConstruction ==
    stage = "build" /\ tables # <<>> =>
        /\ BadFkListing => pc # "built"
        /\ \A c \in 1..Len(tables[1].columns) :
              LET k == tables[1].columns[c].fk
              IN  k # 0 => /\ \E x \in Listings(c) : x[1] = k
                           /\ \A x \in Listings(c) : x[1] >= k
        /\ \A k \in 1..Len(tables[1].fks) :
              /\ tables[1].fks[k].columns = given.fks[k]
              /\ \A m \in 1..Len(given.fks[k]) : tables[1].columns[given.fks[k][m]].fk = k
              /\ tables[1].fks[k].primary <=> \E m \in 1..Len(given.fks[k]) : InSourcePrimary(given.fks[k][m])
        /\ pc = "built" =>
              /\ Len(tables[1].fks) = Len(given.fks)
              /\ \A c \in 1..Len(tables[1].columns) :
                    /\ Cardinality(Listings(c)) <= 1
                    /\ tables[1].columns[c].fk = 0 <=> Listings(c) = {}

\* a table is built whose first foreign key owns a column of a UNIQUE index
\* and is not primary, and whose second owns the column of the PRIMARY index
\* and is primary
C25_Witness ==
    /\ stage = "build" /\ pc = "built"
    /\ Len(tables[1].fks) = 2
    /\ tables[1].fks[1].columns = <<1>> /\ ~tables[1].fks[1].primary
    /\ tables[1].fks[2].columns = <<2>> /\ tables[1].fks[2].primary
    /\ tables[1].columns[1].fk = 1 /\ tables[1].columns[2].fk = 2

\* C26: every table element carries the position of the table's figure: the
\* figure's coordinates plus those of its layer, scaled by the two ratios,
\* for a figure on a layer, and the figure's own coordinates, scaled, for a
\* figure on no layer.
C26_Position ==
    \A t \in 1..Len(tnodes) :
        LET figure == given[t].figure
            n      == GetFigureLayer(opts.layers, figure)
        IN  tnodes[t].position =
                IF n # 0
                THEN [x |-> Scaled(figure.left + opts.layers[n].left, 18),
                      y |-> Scaled(figure.top + opts.layers[n].top, 12)]
                ELSE [x |-> Scaled(figure.left, 18), y |-> Scaled(figure.top, 12)]

\* C27: no column element is an identity column and typed with a domain: the
\* type of every column element that carries identity-type ALWAYS is smallint,
\* integer or bigint, whatever the flags, length, precision and scale of the
\* column are.
C27_IdentityType ==
    \A t \in 1..Len(tnodes) : \A n \in 1..Len(tnodes[t].children) :
        LET el == tnodes[t].children[n]
        IN  (el.tag = "column" /\ ~RaisedAtColumn(t, el.src)
                               /\ "identity-type" \in DOMAIN el.attrs) =>
                /\ el.children[1].attrs["name"] \in {str_smallint, str_integer, str_bigint}
                /\ ~StartsWith(el.children[1].attrs["name"], str_public_dot)

\* C28: when the table name is to be put in front of index names, two index
\* elements made from source indexes that differ in their table's name or in
\* their own name have different names.
C28_IndexNamesDistinct ==
    opts.prependTableNameInIdx =>
        \A n, m \in 1..Len(indexes) :
            LET a == indexes[n].src
                b == indexes[m].src
            IN  <<given[a[1]].name, given[a[1]].indices[a[2]].name>>
                    # <<given[b[1]].name, given[b[1]].indices[b[2]].name>>
                => indexes[n].name # indexes[m].name

\* C29: createDbm only reads the schema graph: at every point of a call, and
\* after it has returned or raised, every table, column, index and foreign key
\* is as it was when the call began.
C29_GraphOnlyRead == stage = "call" => tables = given
====
